---- MODULE Spec2Model ----
(***************************************************************************)
(* A model of the g-raph streaming-colouring core: the edge index          *)
(* bijection (graph/edge.rs), the prime-field arithmetic and the 1-sparse  *)
(* recovery fingerprint (graph/streaming/sparse_recovery), the s-sparse    *)
(* recovery grid, the graph container with its min-degree heap (graph.rs), *)
(* the static degeneracy colourer (graph/static_a/coloring.rs) and the BCG *)
(* palette sketch (graph/streaming/coloring.rs).                           *)
(*                                                                         *)
(* Each subsystem has its own specification (SpecEdge, SpecOne, ...); the  *)
(* variables of the other subsystems stay at their idle values.            *)
(***************************************************************************)
EXTENDS Integers, Sequences, FiniteSets, TLC

VARIABLES
    \* edge index bijection
    epc, ed1, eedge, eback,
    \* 1-sparse recovery: the structure, the net frequency vector of the
    \* tokens fed so far (history), the number of tokens fed, the query result
    opc, one, ofreq, ofed, oout,
    \* graph container: the kind of container, the adjacency map, the vertex
    \* heap (vertex -> degree priority), whether a call has panicked, and the
    \* result of color_degeneracy on the graph as it is now
    gpc, gkind, gadj, gheap, gcol,
    \* palette sketch: the init parameters (history), the sketch, the net
    \* multiplicity of every edge index fed so far (history), the number of
    \* tokens fed, the outcome of the s-sparse recovery inside query (history)
    \* and the result of query
    spc, sparams, sketch, smult, sfed, srec, sout,
    \* sketches of several guesses: the sketches built so far, the number of
    \* tokens fed to them, and the last call and its outcome (history)
    fpc, fam, ffed, flast,
    \* stream wrapper: the Stream value, the number of tokens fed through it
    \* (history) and the result of its query
    stpc, st, stfed, stout,
    \* prime field: the order, the last call with its arguments (history) and
    \* what it returned
    ppc, porder, plast, pres,
    \* field GF(2^n): the field, the last call with its arguments (history) and
    \* what it returned
    gfpc, gfield, gflast, gfres,
    \* the guesses side by side: the position, the colorers, whole_graph,
    \* the edges fed, and (actual, min_color) with what they were computed from
    dpc, dcol, dwhole, dfed, dres,
    \* complete multipartite graphs: the position, the partition drawn,
    \* the edges still to add, the container and its coloring
    kpc, kpart, kstream, kgraph, kcol,
    \* the fingerprints over a wide domain: the position, the structure,
    \* the net frequency of every coordinate and the tokens fed
    wpc, wone, wfreq, wfed,
    \* the s-sparse recovery on its own: the position, the structure, the net
    \* frequencies, the number of tokens fed and what query returned
    rpc, rrec, rfreq, rfed, rout,
    \* the L0 sampler: the position, the levels (recoverer and hasher), the
    \* tokens processed and what the sampler returned
    lpc, ldata, lfed, lout

edgeVars == <<epc, ed1, eedge, eback>>
oneVars == <<opc, one, ofreq, ofed, oout>>
graphVars == <<gpc, gkind, gadj, gheap, gcol>>
sketchVars == <<spc, sparams, sketch, smult, sfed, srec, sout>>
famVars == <<fpc, fam, ffed, flast>>
stVars == <<stpc, st, stfed, stout>>
pfVars == <<ppc, porder, plast, pres>>
gfVars == <<gfpc, gfield, gflast, gfres>>
drvVars == <<dpc, dcol, dwhole, dfed, dres>>
partVars == <<kpc, kpart, kstream, kgraph, kcol>>
wideVars == <<wpc, wone, wfreq, wfed>>
recVars == <<rpc, rrec, rfreq, rfed, rout>>
l0Vars == <<lpc, ldata, lfed, lout>>
vars == <<edgeVars, oneVars, graphVars, sketchVars, famVars, stVars, pfVars, gfVars, drvVars, partVars, wideVars, recVars, l0Vars>>
\* what the actions of one subsystem leave alone
edgeRest == <<oneVars, graphVars, sketchVars, famVars, stVars, pfVars, gfVars, drvVars, partVars, wideVars, recVars, l0Vars>>
oneRest == <<edgeVars, graphVars, sketchVars, famVars, stVars, pfVars, gfVars, drvVars, partVars, wideVars, recVars, l0Vars>>
graphRest == <<edgeVars, oneVars, sketchVars, famVars, stVars, pfVars, gfVars, drvVars, partVars, wideVars, recVars, l0Vars>>
sketchRest == <<edgeVars, oneVars, graphVars, famVars, stVars, pfVars, gfVars, drvVars, partVars, wideVars, recVars, l0Vars>>
famRest == <<edgeVars, oneVars, graphVars, sketchVars, stVars, pfVars, gfVars, drvVars, partVars, wideVars, recVars, l0Vars>>
stRest == <<edgeVars, oneVars, graphVars, sketchVars, famVars, pfVars, gfVars, drvVars, partVars, wideVars, recVars, l0Vars>>
pfRest == <<edgeVars, oneVars, graphVars, sketchVars, famVars, stVars, gfVars, drvVars, partVars, wideVars, recVars, l0Vars>>
gfRest == <<edgeVars, oneVars, graphVars, sketchVars, famVars, stVars, pfVars, drvVars, partVars, wideVars, recVars, l0Vars>>
drvRest == <<edgeVars, oneVars, graphVars, sketchVars, famVars, stVars, pfVars, gfVars, partVars, wideVars, recVars, l0Vars>>
partRest == <<edgeVars, oneVars, graphVars, sketchVars, famVars, stVars, pfVars, gfVars, drvVars, wideVars, recVars, l0Vars>>
wideRest == <<edgeVars, oneVars, graphVars, sketchVars, famVars, stVars, pfVars, gfVars, drvVars, partVars, recVars, l0Vars>>
recRest == <<edgeVars, oneVars, graphVars, sketchVars, famVars, stVars, pfVars, gfVars, drvVars, partVars, wideVars, l0Vars>>
l0Rest == <<edgeVars, oneVars, graphVars, sketchVars, famVars, stVars, pfVars, gfVars, drvVars, partVars, wideVars, recVars>>

(***************************************************************************)
(* Bounds                                                                  *)
(***************************************************************************)
\* edge indices 0..MaxD1 are decoded and encoded again
MaxD1 == 119
\* graphs on 2..MaxEdgeN vertices are considered for the edge indices
MaxEdgeN == 16
\* size of the coordinate domain of the stand-alone 1-sparse recovery
OneN == 2
\* number of tokens fed to the stand-alone 1-sparse recovery
OneMaxFeed == 7
\* field orders of the stand-alone 1-sparse recovery (init_with_order takes
\* any order; init(2) draws a 4 bit prime such as 11)
OneOrders == {5, 11}

(***************************************************************************)
(* Arithmetic helpers                                                      *)
(***************************************************************************)
Abs(x) == IF x < 0 THEN -x ELSE x

\* stands for u64::MAX, the value of a saturating `as u64` cast of +infinity
\* (the model checker's integers have 32 bits)
U64Max == 2147483647

RECURSIVE Pow2Mod(_, _)
\* 2^k modulo m
Pow2Mod(m, k) == IF k = 0 THEN 1 % m ELSE (2 * Pow2Mod(m, k - 1)) % m

\* 2^64 modulo m, as ((2^16)^2)^2
Pow2To64Mod(m) ==
    LET a == Pow2Mod(m, 16)
        b == (a * a) % m
    IN  (b * b) % m

\* the residue modulo order of a u64 computed as x, where a negative x is a
\* subtraction that wrapped around 2^64
WrapU64Mod(order, x) == IF x >= 0 THEN x % order ELSE (Pow2To64Mod(order) + order * Abs(x) + x) % order

(***************************************************************************)
(* Edge index bijection: graph/edge.rs                                     *)
(* On indices and vertices below 2^30, where no cast or product of the     *)
(* source leaves the range of its type; the palette sketch uses these.     *)
(***************************************************************************)
Edge(a, b) == [v1 |-> a, v2 |-> b]

\* find_roots_quadratic(0.5, -0.5, -d1): the greater root (1 + sqrt(1 + 8 d1)) / 2,
\* truncated by `(root / 1.0) as u64`
GreaterRoot(d1) == CHOOSE m \in 0..(d1 + 1) : m * (m - 1) <= 2 * d1 /\ (m + 1) * m > 2 * d1

from_d1(d1) ==
    LET max == GreaterRoot(d1)
        min == d1 - ((max * (max - 1)) \div 2)
    IN  Edge(min, max)

vertices_ord(e) == IF e.v1 <= e.v2 THEN <<e.v1, e.v2>> ELSE <<e.v2, e.v1>>

formula(min, max) == IF max = 0 THEN 0 ELSE ((max * (max - 1)) \div 2) + min

to_d1(e) == LET o == vertices_ord(e) IN formula(o[1], o[2])

(***************************************************************************)
(* The edge index at the width of the source: a u64 or u32 value is the    *)
(* vector of its 15 bit limbs, least significant first, without leading    *)
(* zero limbs (the model checker's integers have 32 bits)                  *)
(***************************************************************************)
Limb == 32768

RECURSIVE Wide(_)
\* the limbs of an integer
Wide(n) == IF n = 0 THEN <<>> ELSE <<n % Limb>> \o Wide(n \div Limb)

RECURSIVE Trim(_)
Trim(a) == IF a # <<>> /\ a[Len(a)] = 0 THEN Trim(SubSeq(a, 1, Len(a) - 1)) ELSE a

Digit(a, i) == IF i <= Len(a) THEN a[i] ELSE 0

RECURSIVE AddFrom(_, _, _, _)
AddFrom(a, b, i, carry) ==
    IF i > Len(a) /\ i > Len(b) THEN (IF carry = 0 THEN <<>> ELSE <<carry>>)
    ELSE LET sum == Digit(a, i) + Digit(b, i) + carry
         IN  <<sum % Limb>> \o AddFrom(a, b, i + 1, sum \div Limb)

\* a + b
WAdd(a, b) == AddFrom(a, b, 1, 0)

RECURSIVE SubFrom(_, _, _, _)
SubFrom(a, b, i, borrow) ==
    IF i > Len(a) THEN <<>>
    ELSE LET diff == Digit(a, i) - Digit(b, i) - borrow
         IN  <<diff % Limb>> \o SubFrom(a, b, i + 1, IF diff < 0 THEN 1 ELSE 0)

\* a - b, for b <= a
WSub(a, b) == Trim(SubFrom(a, b, 1, 0))

RECURSIVE LessAt(_, _, _)
LessAt(a, b, i) ==
    IF i = 0 THEN FALSE
    ELSE IF a[i] # b[i] THEN a[i] < b[i]
    ELSE LessAt(a, b, i - 1)

\* a < b and a <= b
WLess(a, b) == IF Len(a) # Len(b) THEN Len(a) < Len(b) ELSE LessAt(a, b, Len(a))
WLeq(a, b) == ~WLess(b, a)

RECURSIVE ScaleFrom(_, _, _, _)
ScaleFrom(a, k, i, carry) ==
    IF i > Len(a) THEN (IF carry = 0 THEN <<>> ELSE <<carry>>)
    ELSE LET prod == a[i] * k + carry
         IN  <<prod % Limb>> \o ScaleFrom(a, k, i + 1, prod \div Limb)

RECURSIVE WMul(_, _)
\* a * b
WMul(a, b) ==
    IF a = <<>> \/ b = <<>> THEN <<>>
    ELSE LET rest == WMul(a, Tail(b))
         IN  WAdd(Trim(ScaleFrom(a, Head(b), 1, 0)), IF rest = <<>> THEN <<>> ELSE <<0>> \o rest)

\* a / 2
WHalf(a) ==
    Trim([i \in 1..Len(a) |->
             (a[i] \div 2) + (IF i < Len(a) /\ a[i + 1] % 2 = 1 THEN Limb \div 2 ELSE 0)])

\* 2^k
WPow2(k) == [i \in 1..((k \div 15) + 1) |-> IF i = (k \div 15) + 1 THEN 2^(k % 15) ELSE 0]

\* `as u32`: the low 32 bits
AsU32(a) == Trim(<<Digit(a, 1), Digit(a, 2), Digit(a, 3) % 4>>)

\* the number of significant bits
BitLen(a) ==
    IF a = <<>> THEN 0
    ELSE 15 * (Len(a) - 1) + (CHOOSE b \in 1..15 : 2^(b - 1) <= a[Len(a)] /\ a[Len(a)] < 2^b)

RECURSIVE HalfTimes(_, _)
\* a / 2^k
HalfTimes(a, k) == IF k = 0 THEN a ELSE HalfTimes(WHalf(a), k - 1)

\* `d1 as f64`: the nearest value with 53 significant bits, ties to the even one
AsF64(a) ==
    IF BitLen(a) <= 53 THEN a
    ELSE LET sh == BitLen(a) - 53
             q == HalfTimes(a, sh)
             r == WSub(a, WMul(q, WPow2(sh)))
             half == WPow2(sh - 1)
             up == WLess(half, r) \/ (r = half /\ Digit(q, 1) % 2 = 1)
         IN  WMul(IF up THEN WAdd(q, <<1>>) ELSE q, WPow2(sh))

RECURSIVE RootFrom(_, _, _)
\* the greatest m + j 2^k, j >= 0, with (m + j 2^k) (m + j 2^k - 1) <= d2
RootFrom(d2, m, k) ==
    IF k < 0 THEN m
    ELSE LET c == WAdd(m, WPow2(k))
         IN  CHOOSE root \in {RootFrom(d2, next, k - 1) :
                                  next \in {IF WLeq(WMul(c, WSub(c, <<1>>)), d2) THEN c ELSE m}} : TRUE

\* `(root / 1.0) as u64` for the greater root of find_roots_quadratic(0.5, -0.5,
\* -(d1 as f64)): with f = d1 as f64, the m with m (m - 1) <= 2 f < (m + 1) m.
\* The f64 computation gives exactly this for the indices of the model: for
\* d1 < 2^50 the discriminant 0.25 + 2 d1 is exact and the root is further
\* from the next integer than the rounding error; for d1 within 1 of
\* C(2^32, 2), `d1 as f64` is 2^63 - 2^31, the discriminant rounds to
\* 2^64 - 2^32, its square root to 2^32 - 0.5, and the root is 2^32
GreaterRoot_u64(d1) ==
    LET f == AsF64(d1)
    IN  RootFrom(WAdd(f, f), <<>>, 15 * ((Len(f) + 1) \div 2) + 1)

\* from_d1 does not return: `d1 - ((max * (max - 1)) / 2)` overflowed
EdgePanic == [v1 |-> <<>>, v2 |-> <<>>, panic |-> TRUE]

\* Edge::from_d1 on a u64, the set of its outcomes; max * (max - 1) fits a u64
\* for every d1 below C(2^32 + 1, 2).  Where the difference is negative the
\* call panics if overflow is checked and wraps modulo 2^64 if not
from_d1_u64(d1) ==
    LET max == GreaterRoot_u64(d1)
        sub == WHalf(WMul(max, WSub(max, <<1>>)))
    IN  IF WLeq(sub, d1)
        THEN {Edge(AsU32(WSub(d1, sub)), AsU32(max))}
        ELSE {EdgePanic, Edge(AsU32(WSub(WPow2(64), WSub(sub, d1))), AsU32(max))}

vertices_ord_u32(e) == IF WLeq(e.v1, e.v2) THEN <<e.v1, e.v2>> ELSE <<e.v2, e.v1>>

\* Edge::formula on u32 vertices: the product is computed in u64
formula_u64(min, max) ==
    IF max = <<>> THEN <<>> ELSE WAdd(WHalf(WMul(max, WSub(max, <<1>>))), min)

to_d1_u64(e) == LET o == vertices_ord_u32(e) IN formula_u64(o[1], o[2])

\* C(2^32, 2) + 1: no edge on u32 vertices has this index or a greater one
\* (the greatest index of a pair of u32 values is formula(2^32 - 1, 2^32 - 1)
\* = C(2^32, 2))
BeyondU32 == WAdd(WHalf(WMul(WPow2(32), WSub(WPow2(32), <<1>>))), <<1>>)

\* C(2^32, 2) - 1: the greatest index of an edge on the 2^32 vertices of a u32
LastOfU32 == WSub(WHalf(WMul(WPow2(32), WSub(WPow2(32), <<1>>))), <<1>>)

\* the indices decoded: those of the edges on few vertices, LastOfU32 and
\* BeyondU32
EdgeInputs == {Wide(d) : d \in 0..MaxD1} \cup {LastOfU32, BeyondU32}

NoEdge == Edge(<<>>, <<>>)

EdgeIdle == epc = "idle" /\ ed1 = <<>> /\ eedge = NoEdge /\ eback = <<>>

InitEdge == /\ epc = "input"
            /\ ed1 \in EdgeInputs
            /\ eedge = NoEdge
            /\ eback = <<>>

\* Edge::from_d1(ed1)
Edge_from_d1 == /\ epc = "input"
                /\ \E out \in from_d1_u64(ed1) :
                       /\ eedge' = (IF out = EdgePanic THEN NoEdge ELSE out)
                       /\ epc' = (IF out = EdgePanic THEN "panicked" ELSE "decoded")
                /\ UNCHANGED <<ed1, eback>>
                /\ UNCHANGED edgeRest

\* edge.to_d1() on the decoded edge
Edge_to_d1 == /\ epc = "decoded"
              /\ eback' = to_d1_u64(eedge)
              /\ epc' = "encoded"
              /\ UNCHANGED <<ed1, eedge>>
              /\ UNCHANGED edgeRest

(***************************************************************************)
(* Prime field: graph/streaming/sparse_recovery/finite_field.rs            *)
(* A field element is the u64 it wraps; the order is passed explicitly.    *)
(***************************************************************************)
mod_p(order, val) == val % order

\* order - |val| is computed in u64: a negative result here is a subtraction
\* that overflowed
mod_p_i32(order, val) == IF val >= 0 THEN mod_p(order, val) ELSE order - Abs(val)

mul(order, v1, v2) == (v1 * v2) % order

add_no_reduce(order, v1, v2) == v1 + v2

add(order, v1, v2) == (v1 + v2) % order

neg(order, v1) == order - v1

RECURSIVE pow(_, _, _)
pow(order, base, expo) ==
    IF expo = 0 THEN 1
    ELSE IF expo % 2 = 1 THEN mul(order, base, pow(order, base, expo - 1))
    ELSE pow(order, mul(order, base, base), expo \div 2)

RECURSIVE pow_blocks(_, _, _)
\* pow on the exponent 2^(8 k) - 1, whose binary form is 8 k ones, taken eight
\* bits at a time: base^255 times (base^256)^(2^(8 (k - 1)) - 1)
pow_blocks(order, base, k) ==
    IF k = 0 THEN 1
    ELSE CHOOSE res \in {mul(order, pow(order, base, 255), pow_blocks(order, nb, k - 1)) :
                            nb \in {pow(order, base, 256)}} : TRUE

\* pow(base, expo) for every u64 exponent of the model, u64::MAX included
pow_u64(order, base, expo) ==
    IF expo = U64Max THEN pow_blocks(order, base, 8) ELSE pow(order, base, expo)

(***************************************************************************)
(* 1-sparse recovery: graph/streaming/sparse_recovery/one_sparse.rs        *)
(***************************************************************************)
Zero == [tag |-> "Zero", lambda |-> 0, index |-> 0]
NotOneSparse == [tag |-> "NotOneSparse", lambda |-> 0, index |-> 0]
VeryLikely(lambda, i) == [tag |-> "VeryLikely", lambda |-> lambda, index |-> i]
\* the call does not return: an arithmetic overflow check or an unwrap failed
Panicked == [tag |-> "Panic", lambda |-> 0, index |-> 0]
NoOutput == [tag |-> "None", lambda |-> 0, index |-> 0]

OneSparseRecovery_init_with_order(n, order, r) ==
    [l |-> 0, z |-> 0, p |-> 0, r |-> r, n |-> n, field |-> order]

\* the bounds of i32, the type of l and z
I32Max == 2147483647
I32Min == -I32Max - 1

\* a + b leaves i32
add_overflows(a, b) == (b > 0 /\ a > I32Max - b) \/ (b < 0 /\ a < I32Min - b)

\* a + b in i32 where overflow is not checked: the sum modulo 2^32
wrapping_add(a, b) ==
    IF b > 0 /\ a > I32Max - b THEN (a + I32Min) + (b + I32Min)
    ELSE IF b < 0 /\ a < I32Min - b THEN (a - I32Min) + (b - I32Min)
    ELSE a + b

\* `coordinate as i32` keeps the low 32 bits; the coordinates of the model
\* are below 2^31, which the cast leaves as they are
as_i32(coordinate) == coordinate

\* self.l += value_int or self.z += value_int * coordinate as i32 overflows:
\* feed panics where overflow is checked
OneSparseRecovery_feed_overflows(s, coordinate, value) ==
    LET value_int == IF value THEN 1 ELSE -1
    IN  add_overflows(s.l, value_int) \/ add_overflows(s.z, value_int * as_i32(coordinate))

\* feed where it returns
OneSparseRecovery_feed(s, coordinate, value) ==
    LET value_int == IF value THEN 1 ELSE -1
        power == pow(s.field, s.r, coordinate)
    IN  [s EXCEPT !.l = wrapping_add(s.l, value_int),
                  !.z = wrapping_add(s.z, value_int * as_i32(coordinate)),
                  !.p = IF value THEN add(s.field, s.p, power)
                                 ELSE add(s.field, s.p, neg(s.field, power))]

\* (z as f32) / (l as f32) and the test (divided.round() - divided).abs() > EPSILON:
\* a division by zero gives an infinity or a NaN, for which the comparison is
\* false; `divided.round() as u64` saturates (+inf to u64::MAX, negatives and NaN
\* to 0).  For |z|, |l| < 2^24 the quotient is integral exactly when l divides z.
Divides(l, z) == \E q \in (-Abs(z))..Abs(z) : q * l = z
Quotient(l, z) == CHOOSE q \in (-Abs(z))..Abs(z) : q * l = z
RoundedIsIntegral(l, z) == l = 0 \/ Divides(l, z)
RoundedAsU64(l, z) ==
    IF l = 0 THEN (IF z > 0 THEN U64Max ELSE 0)
    ELSE IF Quotient(l, z) < 0 THEN 0 ELSE Quotient(l, z)

\* the set of outcomes of query: one outcome, except where mod_p_i32 overflows
\* (a panic where overflow is checked, the wrapped value where it is not)
OneSparseRecovery_query(s) ==
    IF s.p = 0 /\ s.z = 0 /\ s.l = s.z THEN {Zero}
    ELSE IF ~RoundedIsIntegral(s.l, s.z) THEN {NotOneSparse}
    ELSE LET i == RoundedAsU64(s.l, s.z)
             lifted == mod_p_i32(s.field, s.l)
             rhs == mul(s.field, WrapU64Mod(s.field, lifted), pow_u64(s.field, s.r, i))
             released == IF s.p # rhs THEN NotOneSparse ELSE VeryLikely(s.l, i)
         IN  IF lifted < 0 THEN {Panicked, released} ELSE {released}

OneIdle == /\ opc = "idle"
           /\ one = OneSparseRecovery_init_with_order(1, 2, 0)
           /\ ofreq = <<>>
           /\ ofed = 0
           /\ oout = NoOutput

InitOne == /\ opc = "stream"
           /\ \E order \in OneOrders : \E r \in 0..(order - 1) :
                  one = OneSparseRecovery_init_with_order(OneN, order, r)
           /\ ofreq = [j \in 0..(OneN - 1) |-> 0]
           /\ ofed = 0
           /\ oout = NoOutput

\* recover.feed((j, c))
One_feed == /\ opc = "stream"
            /\ ofed < OneMaxFeed
            /\ \E j \in 0..(one.n - 1) : \E c \in BOOLEAN :
                  /\ one' = OneSparseRecovery_feed(one, j, c)
                  /\ ofreq' = [ofreq EXCEPT ![j] = @ + (IF c THEN 1 ELSE -1)]
            /\ ofed' = ofed + 1
            /\ UNCHANGED <<opc, oout>>
            /\ UNCHANGED oneRest

\* recover.query(), which consumes the structure
One_query == /\ opc = "stream"
             /\ \E out \in OneSparseRecovery_query(one) : oout' = out
             /\ opc' = "queried"
             /\ UNCHANGED <<one, ofreq, ofed>>
             /\ UNCHANGED oneRest

(***************************************************************************)
(* Graph container: graph.rs                                               *)
(* An adjacency map is a function from the vertices that are keys to their *)
(* sets of destinations; a heap is a function from the vertices it holds   *)
(* to the degree d of their priority Reverse(d).                           *)
(***************************************************************************)
Put(f, k, val) == [x \in (DOMAIN f) \cup {k} |-> IF x = k THEN val ELSE f[x]]
Drop(f, k) == [x \in (DOMAIN f) \ {k} |-> f[x]]
EmptyMap == [x \in {} |-> 0]

\* stands for usize::MAX, the value of 0 - 1 where overflow is not checked
UsizeMax == 2147483647

Graph_add_edge(adj, u, v, directed) ==
    LET a1 == IF u \in DOMAIN adj THEN adj ELSE Put(adj, u, {})
        a2 == [a1 EXCEPT ![u] = @ \cup {v}]
        a3 == IF v \in DOMAIN a2 THEN a2 ELSE Put(a2, v, {})
    IN  IF directed THEN a2 ELSE [a3 EXCEPT ![v] = @ \cup {u}]

Graph_remove_edge(adj, u, v) ==
    LET a1 == IF u \in DOMAIN adj THEN [adj EXCEPT ![u] = @ \ {v}] ELSE adj
        a2 == IF v \in DOMAIN a1 THEN [a1 EXCEPT ![v] = @ \ {u}] ELSE a1
        a3 == IF u \in DOMAIN a2 /\ a2[u] = {} THEN Drop(a2, u) ELSE a2
    IN  IF v \in DOMAIN a3 /\ a3[v] = {} THEN Drop(a3, v) ELSE a3

Graph_remove_vertex(adj, vertex) ==
    LET neighbors == IF vertex \in DOMAIN adj THEN adj[vertex] ELSE {}
        a1 == Drop(adj, vertex)
    IN  [x \in DOMAIN a1 |-> IF x \in neighbors THEN a1[x] \ {vertex} ELSE a1[x]]

\* the vertices min_degree can return: the first key, in the iteration order of
\* the map, among those of least degree
Graph_min_degree(adj) ==
    {v \in DOMAIN adj : \A w \in DOMAIN adj : Cardinality(adj[v]) <= Cardinality(adj[w])}

\* PriorityQueue::push_decrease with priority Reverse(len): an item in the queue
\* is updated only if Reverse(len) is less than its priority
push_decrease(heap, item, len) ==
    IF item \in DOMAIN heap
    THEN (IF len > heap[item] THEN [heap EXCEPT ![item] = len] ELSE heap)
    ELSE Put(heap, item, len)

\* PriorityQueue::push_increase with priority Reverse(len)
push_increase(heap, item, len) ==
    IF item \in DOMAIN heap
    THEN (IF len < heap[item] THEN [heap EXCEPT ![item] = len] ELSE heap)
    ELSE Put(heap, item, len)

\* a container state, and the outcome of a call that panicked
G(adj, heap) == [adj |-> adj, heap |-> heap, panic |-> FALSE]
GPanic == [adj |-> EmptyMap, heap |-> EmptyMap, panic |-> TRUE]

Recaller_add_edge(adj, heap, u, v, directed) ==
    LET a == Graph_add_edge(adj, u, v, directed)
        h1 == push_decrease(heap, u, Cardinality(a[u]))
    IN  IF directed THEN G(a, h1) ELSE G(a, push_decrease(h1, v, Cardinality(a[v])))

\* get_neighbors(..).unwrap() panics for an endpoint that Graph::remove_edge
\* has dropped from the map, or that never was in it
Recaller_remove_edge(adj, heap, u, v) ==
    LET a == Graph_remove_edge(adj, u, v)
    IN  IF u \notin DOMAIN a \/ v \notin DOMAIN a THEN GPanic
        ELSE G(a, push_increase(push_increase(heap, u, Cardinality(a[u])), v, Cardinality(a[v])))

\* current.0 - 1 on a priority of 0 is a usize subtraction that overflows
Recaller_remove_vertex(adj, heap, vertex) ==
    LET neighbors == IF vertex \in DOMAIN adj THEN adj[vertex] ELSE {}
        lowered == neighbors \cap DOMAIN heap
        h == [x \in DOMAIN heap |->
                 IF x \in lowered
                 THEN (IF heap[x] = 0 THEN UsizeMax ELSE heap[x] - 1)
                 ELSE heap[x]]
        done == G(Graph_remove_vertex(adj, vertex), h)
    IN  IF \E x \in lowered : heap[x] = 0 THEN {GPanic, done} ELSE {done}

\* the vertices PriorityQueue::peek and pop can return: one of greatest
\* priority, that is of least degree
Recaller_min_degree(heap) ==
    {v \in DOMAIN heap : \A w \in DOMAIN heap : heap[v] <= heap[w]}

\* the outcomes of remove_min, each with the vertex it returns; called on a
\* container for which min_degree returned a vertex
remove_min(kind, adj, heap) ==
    IF kind = "Graph"
    THEN {[vertex |-> v, g |-> G(Graph_remove_vertex(adj, v), heap)] : v \in Graph_min_degree(adj)}
    ELSE UNION {{[vertex |-> v, g |-> g] : g \in Recaller_remove_vertex(adj, Drop(heap, v), v)} :
                   v \in Recaller_min_degree(heap)}

min_degree_is_none(kind, adj, heap) ==
    IF kind = "Graph" THEN DOMAIN adj = {} ELSE DOMAIN heap = {}

(***************************************************************************)
(* Static degeneracy colourer: graph/static_a/coloring.rs                  *)
(***************************************************************************)
Ordering(seq) == [ordering |-> seq, panic |-> FALSE]
OrderingPanic == [ordering |-> <<>>, panic |-> TRUE]

RECURSIVE extraction(_, _, _)
\* the loop `while let Some((min, deg)) = graph.min_degree()` on the clone: the
\* orderings it can build, one for every way the ties are broken
extraction(kind, adj, heap) ==
    IF min_degree_is_none(kind, adj, heap) THEN {Ordering(<<>>)}
    ELSE UNION {IF o.g.panic THEN {OrderingPanic}
                ELSE {IF rest.panic THEN OrderingPanic ELSE Ordering(<<o.vertex>> \o rest.ordering) :
                         rest \in extraction(kind, o.g.adj, o.g.heap)} :
                   o \in remove_min(kind, adj, heap)}

reverse(seq) == [i \in 1..Len(seq) |-> seq[Len(seq) + 1 - i]]

NoColoring == [tag |-> "None", map |-> EmptyMap]
ColoringPanic == [tag |-> "Panic", map |-> EmptyMap]
Coloring(map) == [tag |-> "Coloring", map |-> map]

\* a color above every neighbor's color
above_all(neighbor_colors) ==
    IF neighbor_colors = {} THEN 0
    ELSE 1 + CHOOSE c \in neighbor_colors : \A d \in neighbor_colors : d <= c

\* the least color that is in no neighbor's color
least_free(neighbor_colors) ==
    CHOOSE color \in 0..Cardinality(neighbor_colors) :
        color \notin neighbor_colors /\ \A c \in 0..(color - 1) : c \in neighbor_colors

RECURSIVE greedy_in_order(_, _, _)
\* ordering.into_iter().for_each(..): get_neighbors(&v).unwrap() panics for a
\* vertex of the ordering that is no key of the adjacency map
greedy_in_order(adj, ordering, coloring) ==
    IF ordering = <<>> THEN Coloring(coloring)
    ELSE LET v == Head(ordering)
         IN  IF v \notin DOMAIN adj THEN ColoringPanic
             ELSE LET neighbor_colors == {coloring[w] : w \in adj[v] \cap DOMAIN coloring}
                  IN  greedy_in_order(adj, Tail(ordering), Put(coloring, v, least_free(neighbor_colors)))

color_degeneracy(kind, adj, heap) ==
    {IF o.panic THEN ColoringPanic ELSE greedy_in_order(adj, reverse(o.ordering), EmptyMap) :
        o \in extraction(kind, adj, heap)}

(***************************************************************************)
(* The container under its mutators, and the colourer on what they built   *)
(***************************************************************************)
\* vertices 0..GN-1
GN == 4
GVerts == 0..(GN - 1)

GraphIdle ==
    /\ gpc = "idle"
    /\ gkind = "Graph"
    /\ gadj = EmptyMap
    /\ gheap = EmptyMap
    /\ gcol = NoColoring

\* G::new(Default::default())
InitGraph ==
    /\ gpc = "ready"
    /\ gkind \in {"Graph", "GraphWithRecaller"}
    /\ gadj = EmptyMap
    /\ gheap = EmptyMap
    /\ gcol = NoColoring

\* no priority of the heap has wrapped around: the mutators are explored up
\* to the first wrap-around
NotWrapped == \A x \in DOMAIN gheap : gheap[x] <= GN

\* the container becomes g, or the call panics
Becomes(g) ==
    /\ gpc' = IF g.panic THEN "panicked" ELSE "ready"
    /\ gadj' = IF g.panic THEN gadj ELSE g.adj
    /\ gheap' = IF g.panic THEN gheap ELSE g.heap
    /\ gcol' = NoColoring
    /\ UNCHANGED gkind
    /\ UNCHANGED graphRest

\* graph.add_edge(Edge::init(u, v)): the graphs handed to the colourer are
\* built from undirected edges
G_add_edge ==
    /\ gpc = "ready"
    /\ NotWrapped
    /\ \E u \in GVerts, v \in GVerts, directed \in {FALSE} :
          Becomes(IF gkind = "Graph" THEN G(Graph_add_edge(gadj, u, v, directed), gheap)
                  ELSE Recaller_add_edge(gadj, gheap, u, v, directed))

\* graph.remove_edge(Edge::init(u, v))
G_remove_edge ==
    /\ gpc = "ready"
    /\ NotWrapped
    /\ \E u \in GVerts, v \in GVerts :
          Becomes(IF gkind = "Graph" THEN G(Graph_remove_edge(gadj, u, v), gheap)
                  ELSE Recaller_remove_edge(gadj, gheap, u, v))

\* graph.remove_vertex(&v)
G_remove_vertex ==
    /\ gpc = "ready"
    /\ NotWrapped
    /\ \E v \in GVerts :
          \E g \in (IF gkind = "Graph" THEN {G(Graph_remove_vertex(gadj, v), gheap)}
                    ELSE Recaller_remove_vertex(gadj, gheap, v)) : Becomes(g)

\* graph.remove_min(), which returns None on an empty container
G_remove_min ==
    /\ gpc = "ready"
    /\ NotWrapped
    /\ IF min_degree_is_none(gkind, gadj, gheap) THEN Becomes(G(gadj, gheap))
       ELSE \E o \in remove_min(gkind, gadj, gheap) : Becomes(o.g)

\* graph.color_degeneracy(), which works on a clone
G_color_degeneracy ==
    /\ gpc = "ready"
    /\ \E c \in color_degeneracy(gkind, gadj, gheap) :
          /\ gcol' = c
          /\ gpc' = IF c.tag = "Panic" THEN "panicked" ELSE "ready"
    /\ UNCHANGED <<gkind, gadj, gheap>>
    /\ UNCHANGED graphRest

(***************************************************************************)
(* GF(2^n): utils/finite_field.rs                                          *)
(* A field is its order and its irreducible polynomial, an element is the  *)
(* u64 bit vector of its coefficients.                                     *)
(***************************************************************************)
RECURSIVE Xor(_, _)
\* a ^ b on bit vectors
Xor(a, b) ==
    IF a = 0 THEN b
    ELSE IF b = 0 THEN a
    ELSE 2 * Xor(a \div 2, b \div 2) + ((a + b) % 2)

RECURSIVE BitAnd(_, _)
\* a & b on bit vectors
BitAnd(a, b) ==
    IF a = 0 \/ b = 0 THEN 0
    ELSE 2 * BitAnd(a \div 2, b \div 2) + ((a % 2) * (b % 2))

\* (val as f64).log2().ceil() as u64: the cast of -infinity (val = 0) is 0
bits(val) == IF val <= 1 THEN 0 ELSE CHOOSE b \in 1..30 : 2^(b - 1) < val /\ val <= 2^b

\* (order as f64).log2() as u8
Degree(order) == CHOOSE d \in 0..30 : 2^d <= order /\ order < 2 * 2^d

is_power_of_two(x) == x >= 1 /\ 2^bits(x) = x

\* the table of Primitive::of_degree
Primitive_of_degree ==
    (2 :> 7) @@ (3 :> 9) @@ (4 :> 25) @@ (5 :> 37) @@ (6 :> 73) @@ (7 :> 185) @@
    (8 :> 355) @@ (9 :> 623) @@ (10 :> 1933) @@ (11 :> 2091) @@ (12 :> 5875) @@
    (13 :> 14513) @@ (14 :> 32771) @@ (15 :> 16707) @@ (16 :> 66525) @@
    (17 :> 131081) @@ (18 :> 262207) @@ (19 :> 524327) @@ (20 :> 1048585) @@
    (21 :> 2097157) @@ (22 :> 4194307)

find_primitive(degree) == Primitive_of_degree[degree]

\* FField::init panics on an order that is no power of two, and on a degree
\* that the table does not hold (map.get(deg).unwrap())
FField_init_panics(order) == ~is_power_of_two(order) \/ Degree(order) \notin DOMAIN Primitive_of_degree

FField_init(order) == [order |-> order, irreducible |-> find_primitive(Degree(order))]

RECURSIVE FField_reduce(_, _)
\* the loop of reduce; the shift distance is a u64 difference, which the
\* values of the model never take below zero
FField_reduce(field, value) ==
    IF bits(value) > bits(field.order)
    THEN FField_reduce(field, Xor(value, field.irreducible * 2^(bits(value) - bits(field.irreducible))))
    ELSE value

FField_add(field, lhs, rhs) == Xor(lhs, rhs)

RECURSIVE shift_xor(_, _)
\* the loop of mult over the bits of lower, least significant first
shift_xor(upper, lower) ==
    IF lower = 0 THEN 0
    ELSE Xor(IF lower % 2 = 1 THEN upper ELSE 0, 2 * shift_xor(upper, lower \div 2))

FField_mult(field, lhs, rhs) == FField_reduce(field, shift_xor(lhs, rhs))

(***************************************************************************)
(* The hasher h(x) = ((a x) + b) AND mask over GF(2^n), with a and b       *)
(* uniform field elements and mask = L - 1 for the range L                 *)
(***************************************************************************)
PowerFiniteFieldHasher_init(n, l, a, b) ==
    [field |-> FField_init(n), a |-> a, b |-> b, mask |-> l - 1]

PowerFiniteFieldHasher_random_copy(h, a, b) == [h EXCEPT !.a = a, !.b = b]

PowerFiniteFieldHasher_compute(h, x) ==
    BitAnd(FField_add(h.field, FField_mult(h.field, h.a, x), h.b), h.mask)

(***************************************************************************)
(* s-sparse recovery: graph/streaming/sparse_recovery/s_sparse.rs          *)
(***************************************************************************)
\* an error parameter del is the fraction num / den
Del(num, den) == [num |-> num, den |-> den]

\* (s as f32 / del).log2().ceil() as u64, for del > 0
rows(s, del) ==
    IF del.num < 0 THEN 0
    ELSE CHOOSE t \in 0..30 : /\ 2^t * del.num >= s * del.den
                              /\ t > 0 => 2^(t - 1) * del.num < s * del.den

\* (3 * (n as f64).log2()).ceil() as u64 + 1
prime_bits(n) == (CHOOSE c \in 0..30 : 2^c >= n * n * n /\ (c > 0 => 2^(c - 1) < n * n * n)) + 1

IsPrime(p) == p >= 2 /\ \A q \in 2..(p - 1) : q * q > p \/ p % q # 0

\* the primes Generator::new_prime(bits) can return
new_prime(nbits) == {p \in (2^(nbits - 1))..(2^nbits - 1) : IsPrime(p) /\ p % 2 = 1}

next_power_of_two(x) == IF x <= 1 THEN 1 ELSE 2^bits(x)

\* SparseRecovery::init with the prime and the coefficients of the t hashers
\* it has drawn
SparseRecovery_init(n, s, del, order, coefficients) ==
    LET t == rows(s, del)
        hash_base == PowerFiniteFieldHasher_init(next_power_of_two(n), next_power_of_two(2 * s), 0, 0)
    IN  [n |-> n, s |-> s, order |-> order,
         structures |-> [row \in 1..t |-> EmptyMap],
         functions |-> [row \in 1..t |->
             PowerFiniteFieldHasher_random_copy(hash_base, coefficients[row][1], coefficients[row][2])]]

\* feed(token): bases[row] is the base that init_with_order draws when the
\* bucket of the row is vacant
SparseRecovery_feed(rec, j, c, bases) ==
    [rec EXCEPT !.structures =
        [row \in DOMAIN rec.structures |->
            LET recoveries == rec.structures[row]
                hashed_index == PowerFiniteFieldHasher_compute(rec.functions[row], j)
                cell == IF hashed_index \in DOMAIN recoveries THEN recoveries[hashed_index]
                        ELSE OneSparseRecovery_init_with_order(rec.n, rec.order, bases[row])
            IN  Put(recoveries, hashed_index, OneSparseRecovery_feed(cell, j, c))]]

RecoveryNone == [tag |-> "None", map |-> EmptyMap]
RecoveryPanic == [tag |-> "Panic", map |-> EmptyMap]
RecoverySome(map) == [tag |-> "Some", map |-> map]
RecoveryPending == [tag |-> "Pending", map |-> EmptyMap]

\* query without can_return: the map is returned also when it is empty
query_always_some(rec) ==
    LET cells == UNION {{rec.structures[row][b] : b \in DOMAIN rec.structures[row]} :
                           row \in DOMAIN rec.structures}
        outs == {CHOOSE o \in OneSparseRecovery_query(cell) : o # Panicked : cell \in cells}
        likely == {o \in outs : o.tag = "VeryLikely"}
        keys == {o.index : o \in likely}
    IN  {RecoverySome([i \in keys |-> (CHOOSE o \in likely : o.index = i).lambda])}

\* the outcomes of query: the rows and cells are visited in the order of the
\* maps, which the result does not depend on, except that a cell whose query
\* overflows may or may not be reached before a `return None`
SparseRecovery_query(rec) ==
    LET cells == UNION {{rec.structures[row][b] : b \in DOMAIN rec.structures[row]} :
                           row \in DOMAIN rec.structures}
        overflow == \E cell \in cells : Panicked \in OneSparseRecovery_query(cell)
        outs == {CHOOSE o \in OneSparseRecovery_query(cell) : o # Panicked : cell \in cells}
        likely == {o \in outs : o.tag = "VeryLikely"}
        conflict == \E o1 \in likely, o2 \in likely : o1.index = o2.index /\ o1.lambda # o2.lambda
        keys == {o.index : o \in likely}
        recovery == [i \in keys |-> (CHOOSE o \in likely : o.index = i).lambda]
        result == IF conflict \/ Cardinality(keys) > rec.s \/ likely = {}
                  THEN RecoveryNone ELSE RecoverySome(recovery)
    IN  IF overflow THEN {RecoveryPanic, result} ELSE {result}

(***************************************************************************)
(* The palette sketch: graph/streaming/coloring.rs                         *)
(***************************************************************************)
\* floor(1000 log2 n)
Log2Milli == (1 :> 0) @@ (2 :> 1000) @@ (3 :> 1584) @@ (4 :> 2000) @@ (5 :> 2321) @@ (6 :> 2584)

\* compute_s(n) in thousandths, at most 15 n thousandths below its value
compute_s(n) == 15 * n * Log2Milli[n]

CeilDiv(a, b) == (a + b - 1) \div b

\* (((2 * n * k) as f64) / s).ceil() as u32
palette_size(n, k) == CeilDiv(2 * n * k * 1000, compute_s(n))

binomial2(n) == (n * (n - 1)) \div 2

\* StreamColoring::init with the colours, the prime and the hasher
\* coefficients it has drawn
StreamColoring_init(n, k, del, palette, order, coefficients) ==
    [palette_size |-> palette_size(n, k),
     colors |-> [i \in 0..(n - 1) |-> <<0, palette[i]>>],
     sparse_recovery |-> SparseRecovery_init(binomial2(n), CeilDiv(compute_s(n), 1000), del, order, coefficients)]

\* colors.get(u).unwrap() and colors.get(v).unwrap()
StreamColoring_feed_panics(sk, edge) == edge.v1 \notin DOMAIN sk.colors \/ edge.v2 \notin DOMAIN sk.colors

\* feed without the comparison of the two colors
feed_regardless(sk, edge, c, bases) ==
    [sk EXCEPT !.sparse_recovery = SparseRecovery_feed(@, to_d1(edge), c, bases)]

StreamColoring_feed(sk, edge, c, bases) ==
    IF sk.colors[edge.v1] = sk.colors[edge.v2]
    THEN [sk EXCEPT !.sparse_recovery = SparseRecovery_feed(@, to_d1(edge), c, bases)]
    ELSE sk

ColorsNone == [tag |-> "None", colors |-> EmptyMap]
ColorsPanic == [tag |-> "Panic", colors |-> EmptyMap]
ColorsSome(colors) == [tag |-> "Some", colors |-> colors]
ColorsPending == [tag |-> "Pending", colors |-> EmptyMap]

RECURSIVE add_edges(_, _)
\* the GraphWithRecaller that add_edge builds from a set of edges
add_edges(g, edges) ==
    IF edges = {} THEN g
    ELSE LET edge == CHOOSE e \in edges : TRUE
         IN  add_edges(Recaller_add_edge(g.adj, g.heap, edge.v1, edge.v2, FALSE), edges \ {edge})

recolored_only(colors, color, coloring) ==
    [v \in DOMAIN coloring |-> IF coloring[v] # 0 THEN <<color + 1, coloring[v]>> ELSE colors[v]]

recolored_same_batch(colors, color, coloring) ==
    [v \in DOMAIN colors |->
        IF v \in DOMAIN coloring /\ coloring[v] # 0 THEN <<color, coloring[v]>> ELSE colors[v]]

\* colors.insert(vertex, (color + 1, new_color)) for every vertex whose new
\* color is not 0
recolored(colors, color, coloring) ==
    [v \in DOMAIN colors |->
        IF v \in DOMAIN coloring /\ coloring[v] # 0 THEN <<color + 1, coloring[v]>> ELSE colors[v]]

RECURSIVE recolor_all(_, _, _)
\* the loop over the monochromatic graphs that are not empty: the colour maps
\* it can end with, or a panic of the colourer
recolor_all(colors, pending, graphs) ==
    IF pending = {} THEN {ColorsSome(colors)}
    ELSE LET color == CHOOSE c \in pending : TRUE
             graph == graphs[color]
         IN  UNION {IF coloring.tag = "Panic" THEN {ColorsPanic}
                    ELSE recolor_all(recolored(colors, color, coloring.map), pending \ {color}, graphs) :
                       coloring \in color_degeneracy("GraphWithRecaller", graph.adj, graph.heap)}

\* the part of query that follows sparse_recovery.query(), on its outcome.
\* Edge::from_d1 of u64::MAX overflows max * (max - 1) and, where that is
\* not checked, names a vertex above 2^30: colors.get(..).unwrap() panics
StreamColoring_query_on(sk, recovered) ==
    IF recovered.tag = "Panic" THEN {ColorsPanic}
    ELSE IF recovered.tag = "None" THEN {ColorsNone}
    ELSE IF U64Max \in DOMAIN recovered.map THEN {ColorsPanic}
    ELSE LET edges == {from_d1(i) : i \in DOMAIN recovered.map}
             graphs == [color \in 0..(sk.palette_size - 1) |->
                 add_edges(G(EmptyMap, EmptyMap),
                           {e \in edges : sk.colors[e.v1] = sk.colors[e.v2] /\ sk.colors[e.v1] = <<0, color>>})]
         IN  IF \E e \in edges : StreamColoring_feed_panics(sk, e) THEN {ColorsPanic}
             ELSE recolor_all(sk.colors, {color \in DOMAIN graphs : graphs[color].adj # EmptyMap}, graphs)

StreamColoring_query(sk) ==
    UNION {StreamColoring_query_on(sk, recovered) : recovered \in SparseRecovery_query(sk.sparse_recovery)}

(***************************************************************************)
(* The sketch on a stream of edge insertions and deletions                 *)
(***************************************************************************)
\* vertices 0..SketchN-1
SketchN == 3
\* number of tokens fed to the sketch
SketchMaxFeed == 3
\* the bases of the cells are drawn from these: 1, for which every power is 1,
\* and 2
SketchBases == {1, 2}
\* the offsets b of the hashers are drawn from 0..SketchMaxOffset
SketchMaxOffset == 0
\* the degeneracy guesses k: palette sizes 1 and 2 for three vertices
SketchKs == {1, 12}
\* the error parameters: one and two rows for three vertices
SketchDels == {Del(36, 1), Del(18, 1)}

\* the least prime new_prime can return
SketchOrders(nbits) == {p \in new_prime(nbits) : \A q \in new_prime(nbits) : p <= q}

\* the coefficients (a, b) of the hashers of t rows over GF(n_pow)
SketchCoefficients(t, n_pow) ==
    [1..t -> (0..(n_pow - 1)) \X (0..SketchMaxOffset)]

SketchEdges == {Edge(u, v) : u \in 0..(SketchN - 1), v \in 0..(SketchN - 1)} \ {Edge(u, u) : u \in 0..(SketchN - 1)}

SketchIdle ==
    /\ spc = "idle"
    /\ sparams = [n |-> 0, k |-> 0]
    /\ sketch = [palette_size |-> 0, colors |-> EmptyMap]
    /\ smult = EmptyMap
    /\ sfed = 0
    /\ srec = RecoveryPending
    /\ sout = ColorsPending

\* StreamColoring::init(SketchN, k, del)
InitSketch ==
    /\ spc = "stream"
    /\ \E k \in SketchKs, del \in SketchDels :
          LET n_dom == binomial2(SketchN)
              t == rows(CeilDiv(compute_s(SketchN), 1000), del)
          IN  \E palette \in [0..(SketchN - 1) -> 0..(palette_size(SketchN, k) - 1)],
                 order \in SketchOrders(prime_bits(n_dom)),
                 coefficients \in SketchCoefficients(t, next_power_of_two(n_dom)) :
                    /\ sparams = [n |-> SketchN, k |-> k]
                    /\ sketch = StreamColoring_init(SketchN, k, del, palette, order, coefficients)
    /\ smult = [e \in {to_d1(e) : e \in SketchEdges} |-> 0]
    /\ sfed = 0
    /\ srec = RecoveryPending
    /\ sout = ColorsPending

\* sketch.feed(Edge::init(u, v), c)
S_feed ==
    /\ spc = "stream"
    /\ sfed < SketchMaxFeed
    /\ \E edge \in SketchEdges, c \in BOOLEAN,
          bases \in [DOMAIN sketch.sparse_recovery.structures -> SketchBases] :
          /\ sketch' = StreamColoring_feed(sketch, edge, c, bases)
          /\ smult' = [smult EXCEPT ![to_d1(edge)] = @ + (IF c THEN 1 ELSE -1)]
    /\ sfed' = sfed + 1
    /\ UNCHANGED <<spc, sparams, srec, sout>>
    /\ UNCHANGED sketchRest

\* sketch.query(), which consumes the sketch
S_query ==
    /\ spc = "stream"
    /\ \E recovered \in SparseRecovery_query(sketch.sparse_recovery) :
          \E out \in StreamColoring_query_on(sketch, recovered) :
              /\ srec' = recovered
              /\ sout' = out
              /\ spc' = IF out.tag = "Panic" THEN "panicked" ELSE "queried"
    /\ UNCHANGED <<sketch, sparams, smult, sfed>>
    /\ UNCHANGED sketchRest

(***************************************************************************)
(* Sketches of several guesses: StreamColoring::init, new_k, feed, query   *)
(***************************************************************************)
\* vertices 0..FamN-1
FamN == 3
\* number of tokens fed to the sketches, all sketches together
FamMaxFeed == 2
\* number of sketches built
FamMaxSketches == 2
\* the guesses k: 0, and palette sizes 1 and 2 for three vertices
FamKs == {0, 1, 12}
\* the error parameters: 9/10 (seven rows), 0, -1 (no row) and 36 (one row)
FamDels == {Del(9, 10), Del(0, 1), Del(-1, 1), Del(36, 1)}
\* the bases of the cells
FamBases == {2}

\* the coefficients of the hashers: every row draws the same pair (a, 0)
FamCoefficients(t, n_pow) ==
    {[row \in 1..t |-> c] : c \in (0..(n_pow - 1)) \X {0}}

\* the edges fed: those of the triangle on 0, 1, 2 and one with an endpoint
\* that is no vertex
FamEdges == {Edge(0, 1), Edge(0, 2), Edge(1, 2), Edge(0, FamN)}

\* SparseRecovery::init does not return: for del = 0 the number of rows
\* (s as f32 / del).log2().ceil() as u64 is u64::MAX and the vector of the
\* rows cannot be allocated
SparseRecovery_init_panics(s, del) == del.num = 0 /\ s > 0

\* StreamColoring::init does not return: rng.gen_range(0..palette_size)
\* panics on the empty range, or SparseRecovery::init does not return
StreamColoring_init_panics(n, k, del) ==
    \/ n > 0 /\ palette_size(n, k) = 0
    \/ SparseRecovery_init_panics(CeilDiv(compute_s(n), 1000), del)

new_k_always(sk, n, k, palette) ==
    ColorsSome([palette_size |-> palette_size(n, k),
                colors |-> [i \in 0..(n - 1) |-> <<0, palette[i]>>],
                sparse_recovery |-> sk.sparse_recovery])

\* self.new_k(n, k) with the colours it draws; the outcome carries the new
\* sketch in the place of a colour map
StreamColoring_new_k(sk, n, k, palette) ==
    IF palette_size(n, k) = sk.palette_size THEN ColorsNone
    ELSE IF n > 0 /\ palette_size(n, k) = 0 THEN ColorsPanic
    ELSE ColorsSome([palette_size |-> palette_size(n, k),
                     colors |-> [i \in 0..(n - 1) |-> <<0, palette[i]>>],
                     sparse_recovery |-> sk.sparse_recovery])

feed_every(sketches, i, edge, c, bases) ==
    [j \in DOMAIN sketches |->
        [sketches[j] EXCEPT !.sketch = StreamColoring_feed(@, edge, c, bases), !.fed = @ + 1]]

\* colorer.feed(edge, c) on the i-th of the sketches: feed takes `&mut self`
feed_one(sketches, i, edge, c, bases) ==
    [sketches EXCEPT ![i].sketch = StreamColoring_feed(@, edge, c, bases), ![i].fed = @ + 1]

\* a sketch the program owns: the sketch, the number of tokens passed to its
\* feed (history), whether query has consumed it, and the result of query
Slot(sk) == [sketch |-> sk, fed |-> 0, alive |-> TRUE, out |-> ColorsPending]

\* a call and its outcome: the operation, the sketch it is called on, and
\* its arguments where it has them
Call(op, on, k, del, edge, tag) ==
    [op |-> op, on |-> on, k |-> k, del |-> del, edge |-> edge, tag |-> tag]
NoCall == Call("none", 0, 0, Del(1, 1), Edge(0, 0), "none")

FamIdle == fpc = "idle" /\ fam = <<>> /\ ffed = 0 /\ flast = NoCall

InitFam == fpc = "start" /\ fam = <<>> /\ ffed = 0 /\ flast = NoCall

\* StreamColoring::init(FamN, k, del)
F_init ==
    /\ fpc = "start"
    /\ \E k \in FamKs, del \in FamDels :
          IF StreamColoring_init_panics(FamN, k, del)
          THEN /\ fpc' = "panicked"
               /\ fam' = fam
               /\ flast' = Call("init", 0, k, del, Edge(0, 0), "Panic")
          ELSE LET n_dom == binomial2(FamN)
                   t == rows(CeilDiv(compute_s(FamN), 1000), del)
               IN  \E palette \in [0..(FamN - 1) -> 0..(palette_size(FamN, k) - 1)],
                      order \in SketchOrders(prime_bits(n_dom)),
                      coefficients \in FamCoefficients(t, next_power_of_two(n_dom)) :
                         /\ fpc' = "run"
                         /\ fam' = <<Slot(StreamColoring_init(FamN, k, del, palette, order, coefficients))>>
                         /\ flast' = Call("init", 1, k, del, Edge(0, 0), "Some")
    /\ UNCHANGED ffed
    /\ UNCHANGED famRest

\* fam[i].new_k(FamN, k); a returned sketch is pushed to the sketches
F_new_k ==
    /\ fpc = "run"
    /\ Len(fam) < FamMaxSketches
    /\ \E i \in DOMAIN fam, k \in FamKs :
          /\ fam[i].alive
          /\ \E palette \in [0..(FamN - 1) -> 0..(IF palette_size(FamN, k) = 0 THEN 0
                                                  ELSE palette_size(FamN, k) - 1)] :
                LET out == StreamColoring_new_k(fam[i].sketch, FamN, k, palette)
                IN  /\ fam' = (IF out.tag = "Some" THEN Append(fam, Slot(out.colors)) ELSE fam)
                    /\ fpc' = (IF out.tag = "Panic" THEN "panicked" ELSE fpc)
                    /\ flast' = Call("new_k", i, k, Del(1, 1), Edge(0, 0), out.tag)
    /\ UNCHANGED ffed
    /\ UNCHANGED famRest

\* fam[i].feed(edge, c)
F_feed ==
    /\ fpc = "run"
    /\ ffed < FamMaxFeed
    /\ \E i \in DOMAIN fam, edge \in FamEdges, c \in BOOLEAN, r \in FamBases :
          /\ fam[i].alive
          /\ IF StreamColoring_feed_panics(fam[i].sketch, edge)
             THEN /\ fpc' = "panicked"
                  /\ fam' = fam
                  /\ flast' = Call("feed", i, 0, Del(1, 1), edge, "Panic")
             ELSE LET bases == [row \in DOMAIN fam[i].sketch.sparse_recovery.structures |-> r]
                  IN  /\ fpc' = fpc
                      /\ fam' = feed_one(fam, i, edge, c, bases)
                      /\ flast' = Call("feed", i, 0, Del(1, 1), edge, "Some")
    /\ ffed' = ffed + 1
    /\ UNCHANGED famRest

\* fam[i].query(), which consumes the sketch
F_query ==
    /\ fpc = "run"
    /\ \E i \in DOMAIN fam :
          /\ fam[i].alive
          /\ \E out \in StreamColoring_query(fam[i].sketch) :
                /\ fam' = [fam EXCEPT ![i].alive = FALSE, ![i].out = out]
                /\ fpc' = (IF out.tag = "Panic" THEN "panicked" ELSE fpc)
                /\ flast' = Call("query", i, 0, Del(1, 1), Edge(0, 0), out.tag)
    /\ UNCHANGED ffed
    /\ UNCHANGED famRest

(***************************************************************************)
(* The stream wrapper: graph/streaming/mod.rs, with a palette sketch as    *)
(* the stream S and the result of its query as Q                           *)
(***************************************************************************)
\* number of tokens fed through the wrapper
StMaxFeed == 2

InStream(s) == [tag |-> "InStream", s |-> s, q |-> ColorsPending]
Queried(q) == [tag |-> "Queried", s |-> [palette_size |-> 0, colors |-> EmptyMap], q |-> q]

\* Stream::as_stream: the stream of an InStream value, a panic otherwise
as_stream(stream) == IF stream.tag = "InStream" THEN ColorsSome(stream.s) ELSE ColorsPanic

query_again(stream) == IF stream.tag = "InStream" THEN StreamColoring_query(stream.s) ELSE {ColorsNone}

\* Stream::query: the outcomes of the query of the stream of an InStream
\* value, and the stored result of a Queried value
Stream_query(stream) == IF stream.tag = "InStream" THEN StreamColoring_query(stream.s) ELSE {stream.q}

StIdle == stpc = "idle" /\ st = Queried(ColorsPending) /\ stfed = 0 /\ stout = ColorsPending

\* a wrapper the program has constructed: InStream of a sketch that
\* StreamColoring::init(FamN, k, 0.9) returns, or Queried of a result
InitSt ==
    /\ stpc = "run"
    /\ \/ \E k \in FamKs \ {0} :
             LET n_dom == binomial2(FamN)
                 t == rows(CeilDiv(compute_s(FamN), 1000), Del(9, 10))
             IN  \E palette \in [0..(FamN - 1) -> 0..(palette_size(FamN, k) - 1)],
                    order \in SketchOrders(prime_bits(n_dom)),
                    coefficients \in FamCoefficients(t, next_power_of_two(n_dom)) :
                       st = InStream(StreamColoring_init(FamN, k, Del(9, 10), palette, order, coefficients))
       \/ \E q \in {ColorsNone} \cup {ColorsSome([v \in 0..(FamN - 1) |-> <<0, c>>]) : c \in 0..1} :
             st = Queried(q)
    /\ stfed = 0
    /\ stout = ColorsPending

\* stream.as_stream().feed(edge, c)
St_feed ==
    /\ stpc = "run"
    /\ stfed < StMaxFeed
    /\ \E edge \in FamEdges, c \in BOOLEAN, r \in FamBases :
          LET s == as_stream(st)
          IN  IF s.tag = "Panic" \/ StreamColoring_feed_panics(s.colors, edge)
              THEN /\ stpc' = "panicked"
                   /\ st' = st
              ELSE /\ stpc' = stpc
                   /\ st' = InStream(StreamColoring_feed(s.colors, edge, c,
                                [row \in DOMAIN s.colors.sparse_recovery.structures |-> r]))
    /\ stfed' = stfed + 1
    /\ UNCHANGED stout
    /\ UNCHANGED stRest

\* stream.query(), which consumes the wrapper
St_query ==
    /\ stpc = "run"
    /\ \E out \in Stream_query(st) :
          /\ stout' = out
          /\ stpc' = (IF out.tag = "Panic" THEN "panicked" ELSE "queried")
    /\ UNCHANGED <<st, stfed>>
    /\ UNCHANGED stRest

(***************************************************************************)
(* The prime field on its own: every operation of FiniteField on elements  *)
(* and integers drawn from small sets                                      *)
(***************************************************************************)
\* the orders of the fields
FieldOrders == {2, 5, 11}
\* mod_p takes 0..FieldSpan * order, mod_p_i32 takes the integers of absolute
\* value up to FieldSpan * order
FieldSpan == 2
\* pow takes the exponents 0..FieldMaxExpo
FieldMaxExpo == 5

\* the result of a call: a value, where a negative value v stands for the
\* u64 v + 2^64 of a subtraction that wrapped around, or a panic
Returned(v) == [panic |-> FALSE, value |-> v]
FieldPanic == [panic |-> TRUE, value |-> 0]

Applied(op, a, b) == [op |-> op, a |-> a, b |-> b]

FieldIdle == ppc = "idle" /\ porder = 2 /\ plast = Applied("none", 0, 0) /\ pres = Returned(0)

\* FiniteField::new(order)
InitField == ppc = "ready" /\ porder \in FieldOrders /\ plast = Applied("none", 0, 0) /\ pres = Returned(0)

\* the elements the calls are made on: the residues, and the value that the
\* last call returned
FieldElements == (0..(porder - 1)) \cup (IF pres.value >= 0 THEN {pres.value} ELSE {})

\* field.mod_p(val)
P_mod_p ==
    /\ ppc = "ready"
    /\ \E val \in 0..(FieldSpan * porder) :
          /\ pres' = Returned(mod_p(porder, val))
          /\ plast' = Applied("mod_p", val, 0)
    /\ UNCHANGED <<ppc, porder>>
    /\ UNCHANGED pfRest

\* field.mod_p_i32(val); utils/finite_field.rs has the same body as mod_p_i64.
\* `self.order - val.abs() as u64` below zero panics where overflow is checked
\* and wraps around where it is not
P_mod_p_i32 ==
    /\ ppc = "ready"
    /\ \E val \in (-(FieldSpan * porder))..(FieldSpan * porder) :
          \E out \in (IF mod_p_i32(porder, val) < 0
                      THEN {FieldPanic, Returned(mod_p_i32(porder, val))}
                      ELSE {Returned(mod_p_i32(porder, val))}) :
              /\ pres' = out
              /\ ppc' = (IF out.panic THEN "panicked" ELSE ppc)
              /\ plast' = Applied("mod_p_i32", val, 0)
    /\ UNCHANGED porder
    /\ UNCHANGED pfRest

\* field.add(v1, v2)
P_add ==
    /\ ppc = "ready"
    /\ \E v1 \in FieldElements, v2 \in FieldElements :
          /\ pres' = Returned(add(porder, v1, v2))
          /\ plast' = Applied("add", v1, v2)
    /\ UNCHANGED <<ppc, porder>>
    /\ UNCHANGED pfRest

\* field.mul(v1, v2)
P_mul ==
    /\ ppc = "ready"
    /\ \E v1 \in FieldElements, v2 \in FieldElements :
          /\ pres' = Returned(mul(porder, v1, v2))
          /\ plast' = Applied("mul", v1, v2)
    /\ UNCHANGED <<ppc, porder>>
    /\ UNCHANGED pfRest

\* field.pow(base, expo)
P_pow ==
    /\ ppc = "ready"
    /\ \E base \in FieldElements, expo \in 0..FieldMaxExpo :
          /\ pres' = Returned(pow(porder, base, expo))
          /\ plast' = Applied("pow", base, expo)
    /\ UNCHANGED <<ppc, porder>>
    /\ UNCHANGED pfRest

\* field.neg(v1)
P_neg ==
    /\ ppc = "ready"
    /\ \E v1 \in FieldElements :
          \E out \in (IF neg(porder, v1) < 0 THEN {FieldPanic, Returned(neg(porder, v1))}
                      ELSE {Returned(neg(porder, v1))}) :
              /\ pres' = out
              /\ ppc' = (IF out.panic THEN "panicked" ELSE ppc)
              /\ plast' = Applied("neg", v1, 0)
    /\ UNCHANGED porder
    /\ UNCHANGED pfRest

(***************************************************************************)
(* The field GF(2^n) on its own: FField::add, mult and elem on elements    *)
(* drawn from the field                                                    *)
(***************************************************************************)
\* the orders of the fields: degrees 2, 4 and 8
FFieldOrders == {4, 16, 256}
\* elem takes the values 0..FFieldSpan * order
FFieldSpan == 4

GFIdle == gfpc = "idle" /\ gfield = [order |-> 0, irreducible |-> 0] /\ gflast = Applied("none", 0, 0) /\ gfres = 0

\* FField::init(order); one call is made on each field
InitGF ==
    /\ gfpc = "ready"
    /\ \E order \in FFieldOrders : ~FField_init_panics(order) /\ gfield = FField_init(order)
    /\ gflast = Applied("none", 0, 0)
    /\ gfres = 0

elem_masked(field, value) == FField_reduce(field, value) % field.order

\* FField::elem
FField_elem(field, value) == FField_reduce(field, value)

\* field.elem(value)
GF_elem ==
    /\ gfpc = "ready"
    /\ \E value \in 0..(FFieldSpan * gfield.order) :
          /\ gfres' = FField_elem(gfield, value)
          /\ gflast' = Applied("elem", value, 0)
    /\ gfpc' = "called"
    /\ UNCHANGED gfield
    /\ UNCHANGED gfRest

\* field.add(x, y) on elements x, y < order
GF_add ==
    /\ gfpc = "ready"
    /\ \E x \in 0..(gfield.order - 1), y \in 0..(gfield.order - 1) :
          /\ gfres' = FField_add(gfield, x, y)
          /\ gflast' = Applied("add", x, y)
    /\ gfpc' = "called"
    /\ UNCHANGED gfield
    /\ UNCHANGED gfRest

\* field.mult(x, y) on elements x, y < order
GF_mult ==
    /\ gfpc = "ready"
    /\ \E x \in 0..(gfield.order - 1), y \in 0..(gfield.order - 1) :
          /\ gfres' = FField_mult(gfield, x, y)
          /\ gflast' = Applied("mult", x, y)
    /\ gfpc' = "called"
    /\ UNCHANGED gfield
    /\ UNCHANGED gfRest

(***************************************************************************)
(* The guesses side by side: graph_test! of tests/stanford.rs              *)
(***************************************************************************)
\* vertices 0..DrvN-1: floor(log2 DrvN) sketches
DrvN == 4
\* number of edges of the stream
DrvMaxFeed == 3
\* the error parameter the tests hand to init
DrvDel == Del(1, 100)
\* the multipliers a of the hashers are drawn from 0, which sends every index
\* to one cell, and 1, which sends every index to a cell of its own
DrvMultipliers == {0, 1}
\* the bases of the cells of a sketch are drawn from these
DrvBases == {1, 2}

\* k = 2^i for i in 0..floor(log2 n)
DrvGuesses == [i \in 1..Degree(DrvN) |-> 2^(i - 1)]

DrvEdges == {Edge(u, v) : u \in 0..(DrvN - 1), v \in 0..(DrvN - 1)} \ {Edge(u, u) : u \in 0..(DrvN - 1)}

\* a sketch whose rows all drew the multiplier a and the offset 0
DrvSketch(k, palette, a) ==
    LET n_dom == binomial2(DrvN)
        t == rows(CeilDiv(compute_s(DrvN), 1000), DrvDel)
        order == CHOOSE p \in SketchOrders(prime_bits(n_dom)) : TRUE
    IN  StreamColoring_init(DrvN, k, DrvDel, palette, order, [row \in 1..t |-> <<a, 0>>])

\* for colorer in &mut colorers { colorer.feed(edge, true) }: the cells that
\* colorer i creates for the token draw the base bases[i]
feed_all(colorers, edge, bases) ==
    [i \in DOMAIN colorers |->
        StreamColoring_feed(colorers[i], edge, TRUE,
                            [row \in DOMAIN colorers[i].sparse_recovery.structures |-> bases[i]])]

Answer(rec, out) == [rec |-> rec, out |-> out]

RECURSIVE query_all(_)
\* colorer.query() of every colorer, in order: the outcomes of the s-sparse
\* recoveries and of the queries
query_all(colorers) ==
    IF colorers = <<>> THEN {<<>>}
    ELSE {<<Answer(rec_out[1], rec_out[2])>> \o rest :
             rec_out \in UNION {{<<rec, out>> : out \in StreamColoring_query_on(Head(colorers), rec)} :
                                   rec \in SparseRecovery_query(Head(colorers).sparse_recovery)},
             rest \in query_all(Tail(colorers))}

\* coloring.values().unique().count()
unique_count(map) == Cardinality({map[v] : v \in DOMAIN map})

RECURSIVE least_count_of_all(_, _)
\* the least count with the colorings of the failed queries counted as well
least_count_of_all(answers, min_color) ==
    IF answers = <<>> THEN min_color
    ELSE LET count == unique_count(Head(answers).out.colors)
         IN  least_count_of_all(Tail(answers), IF count < min_color THEN count ELSE min_color)

RECURSIVE least_count(_, _)
\* if count < min_color { min_color = count }, over the colorings returned
least_count(answers, min_color) ==
    IF answers = <<>> THEN min_color
    ELSE LET out == Head(answers).out
             count == unique_count(out.colors)
         IN  least_count(Tail(answers),
                         IF out.tag = "Some" /\ count < min_color THEN count ELSE min_color)

NoResult == [actual |-> 0, min_color |-> 0, answers |-> <<>>, whole |-> NoColoring]

DrvIdle == dpc = "idle" /\ dcol = <<>> /\ dwhole = G(EmptyMap, EmptyMap) /\ dfed = {} /\ dres = NoResult

\* the colorers collected and the empty whole_graph
InitDrv ==
    /\ dpc = "feeding"
    /\ \E as \in [DOMAIN DrvGuesses -> DrvMultipliers] :
          dcol = [i \in DOMAIN DrvGuesses |->
                     DrvSketch(DrvGuesses[i],
                               CHOOSE palette \in [0..(DrvN - 1) -> 0..(palette_size(DrvN, DrvGuesses[i]) - 1)] : TRUE,
                               as[i])]
    /\ dwhole = G(EmptyMap, EmptyMap)
    /\ dfed = {}
    /\ dres = NoResult

\* one turn of `for edge in $edges`: the edge goes to every colorer and to
\* whole_graph; the stream inserts each edge of the graph once
D_feed ==
    /\ dpc = "feeding"
    /\ Cardinality(dfed) < DrvMaxFeed
    /\ \E edge \in DrvEdges, bases \in [DOMAIN dcol -> DrvBases] :
          /\ edge.v1 < edge.v2
          /\ edge \notin dfed
          /\ dcol' = feed_all(dcol, edge, bases)
          /\ dwhole' = Recaller_add_edge(dwhole.adj, dwhole.heap, edge.v1, edge.v2, FALSE)
          /\ dfed' = dfed \cup {edge}
    /\ UNCHANGED <<dpc, dres>>
    /\ UNCHANGED drvRest

\* the queries of the colorers, which consume them (nothing is called on
\* them after), and the colouring of whole_graph: (actual, min_color)
D_query ==
    /\ dpc = "feeding"
    /\ \E answers \in query_all(dcol), whole \in color_degeneracy("GraphWithRecaller", dwhole.adj, dwhole.heap) :
          IF whole.tag = "Panic" \/ \E i \in DOMAIN answers : answers[i].out.tag = "Panic"
          THEN dpc' = "panicked" /\ dres' = dres
          ELSE /\ dpc' = "done"
               /\ dres' = [actual |-> unique_count(whole.map),
                           min_color |-> least_count(answers, UsizeMax),
                           answers |-> answers,
                           whole |-> whole]
    /\ UNCHANGED <<dcol, dwhole, dfed>>
    /\ UNCHANGED drvRest

(***************************************************************************)
(* Complete multipartite graphs: random_graph/partite.rs                   *)
(***************************************************************************)
\* vertices 0..PartN-1
PartN == 4
\* the number of partitions k is drawn from 1..PartMaxK
PartMaxK == 4

\* partition.get(&a): the vertices that drew partition a, in the order they
\* were pushed
part_verts(partition, a) == SelectSeq([i \in 1..PartN |-> i - 1], LAMBDA v : partition[v] = a)

\* a_verts.into_iter().cartesian_product(b_verts.into_iter())
cartesian_product(a_verts, b_verts) ==
    [i \in 1..(Len(a_verts) * Len(b_verts)) |->
        Edge(a_verts[((i - 1) \div Len(b_verts)) + 1], b_verts[((i - 1) % Len(b_verts)) + 1])]

RECURSIVE sample_from(_, _, _, _)
\* BernoulliPartiteGraph::sample with p = 1.0 and one copy, from the pair of
\* partitions (a, b) on
sample_from(partition, k, a, b) ==
    IF a >= k THEN <<>>
    ELSE IF b >= k THEN sample_from(partition, k, a + 1, a + 2)
    ELSE cartesian_product(part_verts(partition, a), part_verts(partition, b))
            \o sample_from(partition, k, a, b + 1)

sample(partition, k) == sample_from(partition, k, 0, 1)

\* GraphWithRecaller::new(adjacency_list): the heap gets every vertex with
\* Reverse(edges.len())
Recaller_new(adj) == G(adj, [v \in DOMAIN adj |-> Cardinality(adj[v])])

\* the adjacency list of the complete multipartite graph of a partition
complete_partite(partition) ==
    [v \in DOMAIN partition |-> {w \in DOMAIN partition : partition[w] # partition[v]}]

PartIdle ==
    /\ kpc = "idle" /\ kpart = EmptyMap /\ kstream = <<>>
    /\ kgraph = G(EmptyMap, EmptyMap) /\ kcol = NoColoring

\* the test k_partite after the sample is drawn, and a container made by new
\* from the adjacency list of the graph
InitPart ==
    /\ kpc = "built"
    /\ kcol = NoColoring
    /\ \E k \in 1..PartMaxK :
          \E partition \in [0..(PartN - 1) -> 0..(k - 1)] :
             /\ kpart = partition
             /\ \/ kstream = sample(partition, k) /\ kgraph = G(EmptyMap, EmptyMap)
                \/ kstream = <<>> /\ kgraph = Recaller_new(complete_partite(partition))

\* one turn of `for (edge, _) in stream { graph.add_edge(edge) }`
K_add_edge ==
    /\ kpc = "built"
    /\ kstream # <<>>
    /\ kgraph' = Recaller_add_edge(kgraph.adj, kgraph.heap, Head(kstream).v1, Head(kstream).v2, FALSE)
    /\ kstream' = Tail(kstream)
    /\ UNCHANGED <<kpc, kpart, kcol>>
    /\ UNCHANGED partRest

\* graph.color_degeneracy() once the stream is through
K_color_degeneracy ==
    /\ kpc = "built"
    /\ kstream = <<>>
    /\ \E c \in color_degeneracy("GraphWithRecaller", kgraph.adj, kgraph.heap) :
          /\ kcol' = c
          /\ kpc' = IF c.tag = "Panic" THEN "panicked" ELSE "colored"
    /\ UNCHANGED <<kpart, kstream, kgraph>>
    /\ UNCHANGED partRest

(***************************************************************************)
(* The fingerprints of a 1-sparse recovery over a wide domain              *)
(***************************************************************************)
\* number of tokens fed
WideMaxFeed == 4
\* a coordinate of a domain above 2^30: the index of an edge of a graph on
\* more than 46342 vertices
WideCoordinate == 2^30
\* the coordinates fed
WideCoordinates == {0, 1, 2, WideCoordinate}
WideOrders == {5, 11}

WideIdle ==
    /\ wpc = "idle"
    /\ wone = OneSparseRecovery_init_with_order(1, 2, 0)
    /\ wfreq = EmptyMap
    /\ wfed = <<>>

\* OneSparseRecovery::init_with_order(n, order) with the base it draws
InitWide ==
    /\ wpc = "stream"
    /\ \E n \in {3, WideCoordinate + 1}, order \in WideOrders :
          \E r \in 0..(order - 1) : wone = OneSparseRecovery_init_with_order(n, order, r)
    /\ wfreq = [j \in WideCoordinates |-> 0]
    /\ wfed = <<>>

\* recover.feed((j, c)): it returns, or panics on an overflow that is checked
W_feed ==
    /\ wpc = "stream"
    /\ Len(wfed) < WideMaxFeed
    /\ \E j \in WideCoordinates, c \in BOOLEAN :
          /\ j < wone.n
          /\ wfreq' = [wfreq EXCEPT ![j] = @ + (IF c THEN 1 ELSE -1)]
          /\ wfed' = Append(wfed, <<j, c>>)
          /\ \/ wone' = OneSparseRecovery_feed(wone, j, c) /\ wpc' = wpc
             \/ /\ OneSparseRecovery_feed_overflows(wone, j, c)
                /\ wone' = wone
                /\ wpc' = "panicked"
    /\ UNCHANGED wideRest

(***************************************************************************)
(* The s-sparse recovery on its own, with a small sparsity                 *)
(***************************************************************************)
\* the domain 0..RecN-1
RecN == 4
\* number of tokens fed
RecMaxFeed == 3
\* the sparsities s: one and two rows with the error 1/2
RecSparsities == {1, 2}
RecDel == Del(1, 2)
\* the bases of the cells: 1, for which every power is 1, and 2
RecBases == {1, 2}

RecIdle ==
    /\ rpc = "idle"
    /\ rrec = [n |-> 0, s |-> 0, order |-> 2, structures |-> <<>>, functions |-> <<>>]
    /\ rfreq = EmptyMap
    /\ rfed = 0
    /\ rout = RecoveryPending

\* SparseRecovery::<PowerFiniteFieldHasher>::init(RecN, s, 0.5) with the
\* prime and the multipliers it draws
InitRec ==
    /\ rpc = "stream"
    /\ \E s \in RecSparsities :
          \E order \in SketchOrders(prime_bits(RecN)),
             coefficients \in [1..rows(s, RecDel) -> (0..(next_power_of_two(RecN) - 1)) \X {0}] :
                rrec = SparseRecovery_init(RecN, s, RecDel, order, coefficients)
    /\ rfreq = [j \in 0..(RecN - 1) |-> 0]
    /\ rfed = 0
    /\ rout = RecoveryPending

\* recovery.feed((j, c))
R_feed ==
    /\ rpc = "stream"
    /\ rfed < RecMaxFeed
    /\ \E j \in 0..(RecN - 1), c \in BOOLEAN, bases \in [DOMAIN rrec.structures -> RecBases] :
          /\ rrec' = SparseRecovery_feed(rrec, j, c, bases)
          /\ rfreq' = [rfreq EXCEPT ![j] = @ + (IF c THEN 1 ELSE -1)]
    /\ rfed' = rfed + 1
    /\ UNCHANGED <<rpc, rout>>
    /\ UNCHANGED recRest

\* recovery.query(), which consumes the structure
R_query ==
    /\ rpc = "stream"
    /\ \E out \in SparseRecovery_query(rrec) :
          /\ rout' = out
          /\ rpc' = IF out.tag = "Panic" THEN "panicked" ELSE "queried"
    /\ UNCHANGED <<rrec, rfreq, rfed>>
    /\ UNCHANGED recRest

(***************************************************************************)
(* The L0 sampler: graph/streaming/sampling/l0_sampling.rs and the hasher  *)
(* FieldHasher of utils/hash_function.rs                                   *)
(***************************************************************************)
\* the domain 0..L0N-1
L0N == 4
\* number of tokens of the stream
L0MaxFeed == 2
\* delta = 1/4
L0LogInvDelta == 2
\* what the hashers draw for a and b, and the recoverers for r
L0Multipliers == {0, 1}
L0Offsets == {0, 1}
L0Bases == {1, 2}

\* the loop `for i in 0..(l as f32).log2() as u64 { mask.set_bit(i, true) }`:
\* the cast of log2(0) = -inf gives 0
FieldHasher_mask(l) == IF l = 0 THEN 0 ELSE 2^Degree(l) - 1

\* FieldHasher::init(n, l) with the a and b it draws
FieldHasher_init(n, l, a, b) == [a |-> a, b |-> b, n |-> n, mask |-> FieldHasher_mask(l)]

FieldHasher_compute(h, x) == BitAnd(((h.a * x) + h.b) % h.n, h.mask)

is_zero(h, x) == FieldHasher_compute(h, x) = 0

\* (n as f32).log2() * (1_f32 / delta).log2(), rounded
L0Levels(n) == (Log2Milli[n] * L0LogInvDelta + 500) \div 1000

Sampled(i, lambda) == [tag |-> "Some", index |-> i, lambda |-> lambda]
SampledNone == [tag |-> "None", index |-> 0, lambda |-> 0]
SampledPanic == [tag |-> "Panic", index |-> 0, lambda |-> 0]
SampledPending == [tag |-> "Pending", index |-> 0, lambda |-> 0]

\* data_structure.iter_mut().for_each(..) on one token
l0_process(data_structure, j, c) ==
    [l \in DOMAIN data_structure |->
        IF is_zero(data_structure[l].hasher, j)
        THEN [data_structure[l] EXCEPT !.recovery = OneSparseRecovery_feed(@, j, c)]
        ELSE data_structure[l]]

RECURSIVE l0_output(_)
\* the scan of the levels in order: the outcomes of the queries up to the
\* first VeryLikely
l0_output(data_structure) ==
    IF data_structure = <<>> THEN {SampledNone}
    ELSE UNION {IF query = Panicked THEN {SampledPanic}
                ELSE IF query.tag = "VeryLikely" THEN {Sampled(query.index, query.lambda)}
                ELSE l0_output(Tail(data_structure)) :
                   query \in OneSparseRecovery_query(Head(data_structure).recovery)}

L0Idle == lpc = "idle" /\ ldata = <<>> /\ lfed = <<>> /\ lout = SampledPending

\* the initialization of l_zero_sampling(n, delta): level l is entry l + 1
InitL0 ==
    /\ lpc = "process"
    /\ \E as \in [1..L0Levels(L0N) -> L0Multipliers], bs \in [1..L0Levels(L0N) -> L0Offsets],
          r \in L0Bases, order \in SketchOrders(prime_bits(L0N)) :
          ldata = [i \in 1..L0Levels(L0N) |->
                      [recovery |-> OneSparseRecovery_init_with_order(L0N, order, r),
                       hasher |-> FieldHasher_init(L0N, i - 1, as[i], bs[i])]]
    /\ lfed = <<>>
    /\ lout = SampledPending

\* one token of `self.for_each(|(j, c)| ..)`
L_process ==
    /\ lpc = "process"
    /\ Len(lfed) < L0MaxFeed
    /\ \E j \in 0..(L0N - 1), c \in BOOLEAN :
          /\ ldata' = l0_process(ldata, j, c)
          /\ lfed' = Append(lfed, <<j, c>>)
    /\ UNCHANGED <<lpc, lout>>
    /\ UNCHANGED l0Rest

\* the output loop, once the stream has ended
L_output ==
    /\ lpc = "process"
    /\ \E out \in l0_output(ldata) :
          /\ lout' = out
          /\ lpc' = IF out.tag = "Panic" THEN "panicked" ELSE "returned"
    /\ UNCHANGED <<ldata, lfed>>
    /\ UNCHANGED l0Rest

(***************************************************************************)
(* Specifications                                                          *)
(***************************************************************************)
NextEdge == Edge_from_d1 \/ Edge_to_d1
InitSpecEdge == InitEdge /\ OneIdle /\ GraphIdle /\ SketchIdle /\ FamIdle /\ StIdle /\ FieldIdle /\ GFIdle /\ DrvIdle /\ PartIdle /\ WideIdle /\ RecIdle /\ L0Idle
SpecEdge == InitSpecEdge /\ [][NextEdge]_vars

NextOne == One_feed \/ One_query
InitSpecOne == InitOne /\ EdgeIdle /\ GraphIdle /\ SketchIdle /\ FamIdle /\ StIdle /\ FieldIdle /\ GFIdle /\ DrvIdle /\ PartIdle /\ WideIdle /\ RecIdle /\ L0Idle
SpecOne == InitSpecOne /\ [][NextOne]_vars

NextGraph == G_add_edge \/ G_remove_edge \/ G_remove_vertex \/ G_remove_min \/ G_color_degeneracy
InitSpecGraph == InitGraph /\ EdgeIdle /\ OneIdle /\ SketchIdle /\ FamIdle /\ StIdle /\ FieldIdle /\ GFIdle /\ DrvIdle /\ PartIdle /\ WideIdle /\ RecIdle /\ L0Idle
SpecGraph == InitSpecGraph /\ [][NextGraph]_vars

NextSketch == S_feed \/ S_query
InitSpecSketch == InitSketch /\ EdgeIdle /\ OneIdle /\ GraphIdle /\ FamIdle /\ StIdle /\ FieldIdle /\ GFIdle /\ DrvIdle /\ PartIdle /\ WideIdle /\ RecIdle /\ L0Idle
SpecSketch == InitSpecSketch /\ [][NextSketch]_vars

NextFam == F_init \/ F_new_k \/ F_feed \/ F_query
InitSpecFam == InitFam /\ EdgeIdle /\ OneIdle /\ GraphIdle /\ SketchIdle /\ StIdle /\ FieldIdle /\ GFIdle /\ DrvIdle /\ PartIdle /\ WideIdle /\ RecIdle /\ L0Idle
SpecFam == InitSpecFam /\ [][NextFam]_vars

NextSt == St_feed \/ St_query
InitSpecSt == InitSt /\ EdgeIdle /\ OneIdle /\ GraphIdle /\ SketchIdle /\ FamIdle /\ FieldIdle /\ GFIdle /\ DrvIdle /\ PartIdle /\ WideIdle /\ RecIdle /\ L0Idle
SpecSt == InitSpecSt /\ [][NextSt]_vars

NextField == P_mod_p \/ P_mod_p_i32 \/ P_add \/ P_mul \/ P_pow \/ P_neg
InitSpecField == InitField /\ EdgeIdle /\ OneIdle /\ GraphIdle /\ SketchIdle /\ FamIdle /\ StIdle /\ GFIdle /\ DrvIdle /\ PartIdle /\ WideIdle /\ RecIdle /\ L0Idle
SpecField == InitSpecField /\ [][NextField]_vars

NextGF == GF_elem \/ GF_add \/ GF_mult
InitSpecGF == InitGF /\ EdgeIdle /\ OneIdle /\ GraphIdle /\ SketchIdle /\ FamIdle /\ StIdle /\ FieldIdle /\ DrvIdle /\ PartIdle /\ WideIdle /\ RecIdle /\ L0Idle
SpecGF == InitSpecGF /\ [][NextGF]_vars

NextDrv == D_feed \/ D_query
InitSpecDrv == InitDrv /\ EdgeIdle /\ OneIdle /\ GraphIdle /\ SketchIdle /\ FamIdle /\ StIdle /\ FieldIdle /\ GFIdle /\ PartIdle /\ WideIdle /\ RecIdle /\ L0Idle
SpecDrv == InitSpecDrv /\ [][NextDrv]_vars

NextPart == K_add_edge \/ K_color_degeneracy
InitSpecPart == InitPart /\ EdgeIdle /\ OneIdle /\ GraphIdle /\ SketchIdle /\ FamIdle /\ StIdle /\ FieldIdle /\ GFIdle /\ DrvIdle /\ WideIdle /\ RecIdle /\ L0Idle
SpecPart == InitSpecPart /\ [][NextPart]_vars

NextWide == W_feed
InitSpecWide == InitWide /\ EdgeIdle /\ OneIdle /\ GraphIdle /\ SketchIdle /\ FamIdle /\ StIdle /\ FieldIdle /\ GFIdle /\ DrvIdle /\ PartIdle /\ RecIdle /\ L0Idle
SpecWide == InitSpecWide /\ [][NextWide]_vars

NextRec == R_feed \/ R_query
InitSpecRec == InitRec /\ EdgeIdle /\ OneIdle /\ GraphIdle /\ SketchIdle /\ FamIdle /\ StIdle /\ FieldIdle /\ GFIdle /\ DrvIdle /\ PartIdle /\ WideIdle /\ L0Idle
SpecRec == InitSpecRec /\ [][NextRec]_vars

NextL0 == L_process \/ L_output
InitSpecL0 == InitL0 /\ EdgeIdle /\ OneIdle /\ GraphIdle /\ SketchIdle /\ FamIdle /\ StIdle /\ FieldIdle /\ GFIdle /\ DrvIdle /\ PartIdle /\ WideIdle /\ RecIdle
SpecL0 == InitSpecL0 /\ [][NextL0]_vars

(***************************************************************************)
(* Properties of the edge index bijection                                  *)
(***************************************************************************)
\* C10: decoding an index d with from_d1 and encoding the edge with to_d1 gives
\* d back, for every d; from_d1(14) is the edge (4, 5) and to_d1 of the edge
\* (4, 5) is 14
C10_RoundTrip ==
    /\ epc = "encoded" => eback = ed1
    /\ from_d1_u64(Wide(14)) = {Edge(Wide(4), Wide(5))}
    /\ to_d1_u64(Edge(Wide(4), Wide(5))) = Wide(14)

\* the round trip on the indices of the edges of a graph on few vertices
RoundTripInRange == (epc = "encoded" /\ ed1 \notin {LastOfU32, BeyondU32}) => eback = ed1

\* the int and the limb form of the bijection agree
SameOnSmall ==
    (epc = "encoded" /\ ed1 \notin {LastOfU32, BeyondU32}) =>
        \E d \in 0..MaxD1 : /\ ed1 = Wide(d)
                            /\ eedge = Edge(Wide(from_d1(d).v1), Wide(from_d1(d).v2))
                            /\ eback = Wide(to_d1(from_d1(d)))

\* the numbers of vertices N considered: few, and the 2^32 values of a u32
EdgeNs == {Wide(n) : n \in 2..MaxEdgeN} \cup {WPow2(32)}

\* N (N - 1) / 2, the number of edges on N vertices
EdgesOn(N) == WHalf(WMul(N, WSub(N, <<1>>)))

\* C11: for every N >= 2 and every index d below N (N - 1) / 2, from_d1(d)
\* returns an edge (u, v) with u < v < N
C11_DecodedInCanonicalOrder ==
    \A N \in EdgeNs :
        WLess(ed1, EdgesOn(N)) =>
            /\ epc # "panicked"
            /\ epc \in {"decoded", "encoded"} =>
                   WLess(eedge.v1, eedge.v2) /\ WLess(eedge.v2, N)

\* the same on the indices of the edges of a graph on few vertices
CanonicalOrderOnSmall ==
    \A N \in EdgeNs :
        (WLess(ed1, EdgesOn(N)) /\ ed1 # LastOfU32) =>
            /\ epc # "panicked"
            /\ epc \in {"decoded", "encoded"} =>
                   WLess(eedge.v1, eedge.v2) /\ WLess(eedge.v2, N)

(***************************************************************************)
(* Properties of the 1-sparse recovery                                     *)
(***************************************************************************)
\* the net frequency vector is m # 0 at coordinate i and zero elsewhere
OnlyAt(i) == ofreq[i] # 0 /\ \A j \in (DOMAIN ofreq) \ {i} : ofreq[j] = 0

\* m * r^i in F_p, with the residue of m taken in the integers
Fingerprint(s, m, i) == ((m % s.field) * pow(s.field, s.r, i)) % s.field

\* C7: after a stream whose net frequency vector is m # 0 at a single
\* coordinate i and zero elsewhere, query returns VeryLikely(m, i)
C7_SingleCoordinate ==
    opc = "queried" => \A i \in DOMAIN ofreq : OnlyAt(i) => oout = VeryLikely(ofreq[i], i)

\* C8: after a stream whose net frequency vector is all zero, query returns Zero
C8_ZeroVector ==
    (opc = "queried" /\ \A j \in DOMAIN ofreq : ofreq[j] = 0) => oout = Zero

C8_Witness ==
    /\ opc = "queried"
    /\ ofed = 4
    /\ \A j \in DOMAIN ofreq : ofreq[j] = 0
    /\ one.r > 1
    /\ oout = Zero

\* the conditions under which the fingerprint (l, z, p) names coordinate i
\* with weight lambda
NamesCoordinate(s, lambda, i) ==
    /\ s.l # 0
    /\ lambda = s.l
    /\ i * s.l = s.z
    /\ 0 <= i /\ i < s.n
    /\ s.p = Fingerprint(s, lambda, i)

\* C9: query returns VeryLikely(lambda, i) only if l # 0, lambda = l, z = i * l,
\* 0 <= i < n and p = lambda * r^i in F_p; in every other state whose
\* fingerprint is not zero it returns NotOneSparse
C9_VeryLikelyOnlyIfConsistent ==
    opc = "queried" =>
        /\ oout.tag = "VeryLikely" => NamesCoordinate(one, oout.lambda, oout.index)
        /\ (/\ ~(one.l = 0 /\ one.z = 0 /\ one.p = 0)
            /\ ~\E i \in 0..(one.n - 1) : NamesCoordinate(one, one.l, i))
           => oout = NotOneSparse

(***************************************************************************)
(* Properties of the static degeneracy colourer                            *)
(***************************************************************************)
\* the adjacency map holds a simple undirected graph: no vertex is its own
\* neighbour, every neighbour is a vertex, and adjacency is symmetric
Undirected(adj) ==
    \A v \in DOMAIN adj : v \notin adj[v] /\ \A w \in adj[v] : w \in DOMAIN adj /\ v \in adj[w]

Proper(adj, map) ==
    \A v \in DOMAIN adj : \A w \in adj[v] : w \in DOMAIN map /\ v \in DOMAIN map => map[v] # map[w]

\* the greatest k such that some set of vertices induces a subgraph whose
\* degrees are all at least k
Degeneracy(adj) ==
    LET MinDegreeIn(S) == CHOOSE d \in 0..Cardinality(S) :
                              /\ \E v \in S : Cardinality(adj[v] \cap S) = d
                              /\ \A v \in S : Cardinality(adj[v] \cap S) >= d
        Ks == {MinDegreeIn(S) : S \in (SUBSET DOMAIN adj) \ {{}}}
    IN  IF Ks = {} THEN 0 ELSE CHOOSE k \in Ks : \A j \in Ks : j <= k

ColorsUsed(map) == {map[v] : v \in DOMAIN map}

Triangle == (0 :> {1, 2}) @@ (1 :> {0, 2}) @@ (2 :> {0, 1})

\* the heap holds exactly the vertices of the adjacency map, each with its degree
HeapAgrees ==
    gkind = "GraphWithRecaller" =>
        /\ DOMAIN gheap = DOMAIN gadj
        /\ \A v \in DOMAIN gadj : gheap[v] = Cardinality(gadj[v])

\* on a container whose heap agrees with its adjacency map, color_degeneracy
\* colors every vertex, properly, with colors in 0..k for the degeneracy k
ColorerCorrectWhenHeapAgrees ==
    (gcol # NoColoring /\ Undirected(gadj) /\ HeapAgrees) =>
        /\ gcol.tag = "Coloring"
        /\ DOMAIN gcol.map = DOMAIN gadj
        /\ Proper(gadj, gcol.map)
        /\ ColorsUsed(gcol.map) \subseteq 0..Degeneracy(gadj)
        /\ gadj = Triangle => Cardinality(ColorsUsed(gcol.map)) = 3

\* C3: on an undirected graph held in a Graph or a GraphWithRecaller,
\* color_degeneracy returns a coloring that gives every vertex a color and gives
\* no two adjacent vertices the same color
C3_EveryVertexColoredProperly ==
    (gcol # NoColoring /\ Undirected(gadj)) =>
        /\ gcol.tag = "Coloring"
        /\ DOMAIN gcol.map = DOMAIN gadj
        /\ Proper(gadj, gcol.map)

\* C4: the coloring returned by color_degeneracy on a graph of degeneracy k has
\* all its colors in 0..k, so at most k + 1 of them; the triangle on 0, 1, 2
\* gets exactly 3 colors
C4_AtMostDegeneracyPlusOneColors ==
    (gcol.tag = "Coloring" /\ Undirected(gadj)) =>
        /\ ColorsUsed(gcol.map) \subseteq 0..Degeneracy(gadj)
        /\ gadj = Triangle => Cardinality(ColorsUsed(gcol.map)) = 3

(***************************************************************************)
(* Properties of the palette sketch                                        *)
(***************************************************************************)
\* the stream is a strict-turnstile delivery of a simple graph
StreamStrict == \A i \in DOMAIN smult : smult[i] \in {0, 1}

\* the edges of the graph the stream has delivered
StreamEdges == {e \in SketchEdges : e.v1 < e.v2 /\ smult[to_d1(e)] = 1}

StreamGraph ==
    [v \in 0..(sparams.n - 1) |-> {w \in 0..(sparams.n - 1) : Edge(v, w) \in StreamEdges \/ Edge(w, v) \in StreamEdges}]

\* the edges whose endpoints drew the same palette colour
Monochromatic == {e \in StreamEdges : sketch.colors[e.v1] = sketch.colors[e.v2]}

\* the s-sparse recovery returned the indices of exactly the monochromatic edges
RecoveryExact == srec.tag = "Some" /\ DOMAIN srec.map = {to_d1(e) : e \in Monochromatic}

ProperOnStream(colors) == \A e \in StreamEdges : colors[e.v1] # colors[e.v2]

Recolored(colors) == \E v \in DOMAIN colors : colors[v][1] > 0

C2_NeverPartial ==
    spc = "queried" =>
        \/ sout = ColorsNone
        \/ /\ sout.tag = "Some"
           /\ DOMAIN sout.colors = 0..(sparams.n - 1)
           /\ \A v \in DOMAIN sout.colors :
                 /\ DOMAIN sout.colors[v] = {1, 2}
                 /\ sout.colors[v][1] \in Nat
                 /\ sout.colors[v][2] \in Nat

C2_Witness ==
    /\ spc = "queried" /\ sout.tag = "Some" /\ sfed = SketchMaxFeed
    /\ DOMAIN sout.colors = 0..(sparams.n - 1)
    /\ \E v \in DOMAIN sout.colors, w \in DOMAIN sout.colors : sout.colors[v][1] > 0 /\ sout.colors[w][1] = 0

(***************************************************************************)
(* Properties of the vertex heap of GraphWithRecaller                      *)
(***************************************************************************)
\* C17: after any sequence of add_edge, remove_edge, remove_vertex and
\* remove_min on a GraphWithRecaller with undirected edges, the heap holds
\* exactly the vertices of the adjacency map, each with the size of its
\* adjacency set as priority
C17_HeapPriorityIsDegree ==
    (gkind = "GraphWithRecaller" /\ gpc = "ready") =>
        /\ DOMAIN gheap = DOMAIN gadj
        /\ \A v \in DOMAIN gadj \cap DOMAIN gheap : gheap[v] = Cardinality(gadj[v])

(***************************************************************************)
(* Properties of the sketches of several guesses                           *)
(***************************************************************************)
\* ceil(2 n k / s): the least P with P s >= 2 n k
PaletteFor(n, k) ==
    CHOOSE P \in 0..(2 * n * k) :
        /\ P * compute_s(n) >= 2 * n * k * 1000
        /\ P > 0 => (P - 1) * compute_s(n) < 2 * n * k * 1000

\* the sketch the last call was made on, and the sketch built last
CalledOn == fam[flast.on].sketch
Newest == fam[Len(fam)].sketch

\* C12: new_k(n, k') with a guess k' >= 1 returns a sketch exactly if the
\* palette size ceil(2 n k' / s) differs from the palette size of the sketch
\* it is called on; the returned sketch has that palette size and colours
\* every vertex 0..n-1 with (0, c), 0 <= c < palette size
C12_NewSketchIffPaletteDiffers ==
    (flast.op = "new_k" /\ flast.k >= 1) =>
        /\ flast.tag \in {"Some", "None"}
        /\ flast.tag = "Some" <=> PaletteFor(FamN, flast.k) # CalledOn.palette_size
        /\ flast.tag = "Some" =>
               /\ Newest.palette_size = PaletteFor(FamN, flast.k)
               /\ DOMAIN Newest.colors = 0..(FamN - 1)
               /\ \A v \in DOMAIN Newest.colors :
                      /\ Newest.colors[v][1] = 0
                      /\ Newest.colors[v][2] \in 0..(Newest.palette_size - 1)

\* new_k has returned a sketch with another palette size, called on a sketch
\* that has been fed
C12_Witness ==
    /\ flast.op = "new_k" /\ flast.k >= 1 /\ flast.tag = "Some"
    /\ Len(fam) = 2
    /\ fam[1].fed > 0
    /\ Newest.palette_size = 2 /\ CalledOn.palette_size = 1
    /\ \E u, v \in DOMAIN Newest.colors : Newest.colors[u] # Newest.colors[v]

\* new_k has returned None for a guess with the palette size of the sketch
NewKNoneReached == flast.op = "new_k" /\ flast.k >= 1 /\ flast.tag = "None"

\* C13: the s-sparse recovery of a sketch that new_k returns has the
\* parameters and the hashers of the sketch new_k was called on and no cell
\* that a token was fed to, however many tokens that sketch had been fed
C13_NewSketchIsFresh ==
    (flast.op = "new_k" /\ flast.tag = "Some") =>
        /\ Newest.sparse_recovery.n = CalledOn.sparse_recovery.n
        /\ Newest.sparse_recovery.s = CalledOn.sparse_recovery.s
        /\ Newest.sparse_recovery.order = CalledOn.sparse_recovery.order
        /\ Newest.sparse_recovery.functions = CalledOn.sparse_recovery.functions
        /\ \A row \in DOMAIN Newest.sparse_recovery.structures :
               Newest.sparse_recovery.structures[row] = EmptyMap

\* the same for a new_k that is called before any token is fed
FreshWhenNothingFed ==
    (flast.op = "new_k" /\ flast.tag = "Some" /\ ffed = 0) =>
        /\ Newest.sparse_recovery.functions = CalledOn.sparse_recovery.functions
        /\ \A row \in DOMAIN Newest.sparse_recovery.structures :
               Newest.sparse_recovery.structures[row] = EmptyMap

\* the error parameter lies in (0, 1)
DelValid(del) == 0 < del.num /\ del.num < del.den

\* C14: init with k = 0 or del outside (0, 1) fails and builds no sketch; a
\* feed of an edge with an endpoint outside 0..n-1 fails and changes no
\* sketch
C14_InvalidParametersFail ==
    /\ []((flast.op = "init" /\ (flast.k = 0 \/ ~DelValid(flast.del))) =>
              (flast.tag = "Panic" /\ fam = <<>>))
    /\ [][(flast'.op = "feed" /\ StreamColoring_feed_panics(fam[flast'.on].sketch, flast'.edge)) =>
              (flast'.tag = "Panic" /\ fam' = fam)]_vars

\* the two parts that hold: the guess k = 0, and the edge at feed
ZeroGuessFails == (flast.op = "init" /\ flast.k = 0) => (flast.tag = "Panic" /\ fam = <<>>)
FeedOutOfRangeFails ==
    [][(flast'.op = "feed" /\ StreamColoring_feed_panics(fam[flast'.on].sketch, flast'.edge)) =>
          (flast'.tag = "Panic" /\ fam' = fam)]_vars

\* C15: a feed or a query of one sketch leaves every other sketch as it is
C15_SketchesIsolated ==
    [][\A j \in DOMAIN fam :
          (flast'.op \in {"feed", "query"} /\ j # flast'.on) => fam'[j] = fam[j]]_vars

\* two sketches, one with the recovery that new_k copied, each fed a token
\* of its own that reached its recovery
C15_Witness ==
    /\ Len(fam) = 2
    /\ fam[1].fed = 1 /\ fam[2].fed = 1
    /\ fam[1].sketch.sparse_recovery # fam[2].sketch.sparse_recovery
    /\ \A i \in 1..2 : \E row \in DOMAIN fam[i].sketch.sparse_recovery.structures :
           fam[i].sketch.sparse_recovery.structures[row] # EmptyMap

(***************************************************************************)
(* Properties of the stream wrapper                                        *)
(***************************************************************************)
\* the state of the lifecycle
Life == IF stpc = "queried" \/ st.tag = "Queried" THEN "QUERIED"
        ELSE IF stfed = 0 THEN "NEW" ELSE "FEEDING"

\* C16: the lifecycle is NEW -> FEEDING -> QUERIED and QUERIED is terminal:
\* a feed through a Queried wrapper panics and changes nothing, a wrapper
\* that query has consumed takes no further call, and the query of a Queried
\* wrapper returns the stored result
C16_QueriedIsTerminal ==
    /\ [][/\ Life = "NEW" => Life' \in {"NEW", "FEEDING", "QUERIED"}
          /\ Life = "FEEDING" => Life' \in {"FEEDING", "QUERIED"}
          /\ Life = "QUERIED" => (Life' = "QUERIED" /\ st' = st)
          /\ stpc # "queried"
          /\ (st.tag = "Queried" /\ stfed' # stfed) => stpc' = "panicked"
          /\ (st.tag = "Queried" /\ stpc' = "queried") => stout' = st.q]_vars
    /\ [](stpc = "queried" => stout.tag # "Pending")

\* a sketch was fed StMaxFeed tokens and then queried with a colouring as
\* the result
C16_Witness ==
    /\ stpc = "queried"
    /\ st.tag = "InStream"
    /\ stfed = StMaxFeed
    /\ stout.tag = "Some"
    /\ \E row \in DOMAIN st.s.sparse_recovery.structures : st.s.sparse_recovery.structures[row] # EmptyMap

\* the query of a Queried wrapper has returned the stored colouring, and a
\* feed through a Queried wrapper has panicked
QueriedAgainReached == stpc = "queried" /\ st.tag = "Queried" /\ stout = st.q /\ stout.tag = "Some"
FeedAfterQueryReached == stpc = "panicked" /\ st.tag = "Queried" /\ stfed = 1

(***************************************************************************)
(* Properties of the prime field                                           *)
(***************************************************************************)
\* C18: every operation of the field of a prime order p (mod_p, mod_p_i32 on
\* every signed value, add, mul, pow, neg) returns a value in [0, p)
C18_ResultInField ==
    plast.op # "none" => (~pres.panic /\ pres.value \in 0..(porder - 1))

\* the same without neg and without mod_p_i32 on a negative value: mod_p, add,
\* mul and pow return a value in [0, p), also on an element that is p
ReducingOperationsInField ==
    plast.op \in {"mod_p", "add", "mul", "pow"} => (~pres.panic /\ pres.value \in 0..(porder - 1))

\* neg returns p - v, which is in [0, p) except for v = 0, and mod_p_i32
\* returns p - |i| for i < 0, which is in [0, p) for 0 < |i| <= p
NegInFieldExceptZero ==
    /\ (plast.op = "neg" /\ plast.a \in 1..porder) => pres = Returned(porder - plast.a)
    /\ (plast.op = "mod_p_i32" /\ -plast.a \in 1..porder) => pres = Returned(porder + plast.a)

(***************************************************************************)
(* Properties of the field GF(2^n)                                         *)
(***************************************************************************)
\* C19: in the field of order 2^n, add, mult and elem return a value below
\* 2^n; in the field of order 256, add(2, 10) = 8 and mult(2, 10) = 20
C19_ResultIsElement ==
    /\ gflast.op # "none" => gfres \in 0..(gfield.order - 1)
    /\ FField_add(FField_init(256), 2, 10) = 8
    /\ FField_mult(FField_init(256), 2, 10) = 20

\* add returns an element; mult and elem return a value that is at most the
\* order 2^n, and the order itself only for a value whose reduction ends in
\* the single bit n
AtMostOrder ==
    /\ gflast.op = "add" => gfres \in 0..(gfield.order - 1)
    /\ gflast.op \in {"mult", "elem"} => gfres \in 0..gfield.order

(***************************************************************************)
(* Properties of the guesses side by side                                  *)
(***************************************************************************)
\* the least number of colours of a proper colouring of the graph fed
Chromatic ==
    LET verts == DOMAIN dwhole.adj
    IN  CHOOSE c \in 0..DrvN :
           /\ \E f \in [verts -> 1..c] : \A e \in dfed : f[e.v1] # f[e.v2]
           /\ \A b \in 0..(c - 1) : ~ \E f \in [verts -> 1..b] : \A e \in dfed : f[e.v1] # f[e.v2]

\* the sketches whose query returned a coloring
Succeeded == {i \in DOMAIN dres.answers : dres.answers[i].out.tag = "Some"}

\* the s-sparse recovery of sketch i returned the indices of exactly the
\* edges whose endpoints drew the same palette colour
DrvExact(i) ==
    /\ dres.answers[i].rec.tag = "Some"
    /\ DOMAIN dres.answers[i].rec.map =
          {to_d1(e) : e \in {x \in dfed : dcol[i].colors[x.v1] = dcol[i].colors[x.v2]}}

ActualIsChromatic == dpc = "done" => dres.actual = Chromatic

OneSucceeded == dpc = "done" /\ Cardinality(Succeeded) = 1 /\ dres.min_color = 2 /\ dres.actual = 2

(***************************************************************************)
(* Properties of the colourer on complete multipartite graphs              *)
(***************************************************************************)
\* the parts of a stored graph: the vertices that are not adjacent to v
NonNeighbors(adj, v) == DOMAIN adj \ adj[v]
Parts(adj) == {NonNeighbors(adj, v) : v \in DOMAIN adj}

\* every pair of vertices of different parts is adjacent and no pair inside
\* a part is: being non-adjacent is an equivalence
CompletePartite(adj) ==
    /\ DOMAIN adj # {}
    /\ \A v \in DOMAIN adj : v \in NonNeighbors(adj, v)
    /\ \A v \in DOMAIN adj : \A w \in NonNeighbors(adj, v) : NonNeighbors(adj, w) = NonNeighbors(adj, v)

\* C21: on a complete k-partite graph with k non-empty parts stored in a
\* GraphWithRecaller, color_degeneracy returns a coloring with exactly k
\* distinct colors, whatever way the ties of the extraction are broken
C21_PartiteUsesKColors ==
    (kstream = <<>> /\ CompletePartite(kgraph.adj))
        => /\ kpc # "panicked"
           /\ kpc = "colored" => unique_count(kcol.map) = Cardinality(Parts(kgraph.adj))

\* a stream-built and a new-built graph of two parts of two vertices, colored
C21_Witness ==
    /\ kpc = "colored"
    /\ CompletePartite(kgraph.adj)
    /\ Cardinality(Parts(kgraph.adj)) = 2
    /\ \A part \in Parts(kgraph.adj) : Cardinality(part) = 2
    /\ unique_count(kcol.map) = 2

\* the stored graph is the complete multipartite graph of the partition
\* drawn, on the vertices that have an edge when it is built from the stream
StoredIsPartite ==
    (kstream = <<>> /\ DOMAIN kgraph.adj # {}) => CompletePartite(kgraph.adj)

\* the sample with one partition has no edge: the container stays empty and
\* its coloring has no color
OnePartitionStreamed ==
    (kpc = "colored" /\ DOMAIN kgraph.adj = {}) => unique_count(kcol.map) = 0

AllPartsOfOne ==
    /\ kpc = "colored"
    /\ Cardinality(Parts(kgraph.adj)) = PartN
    /\ unique_count(kcol.map) = PartN

(***************************************************************************)
(* Properties of the s-sparse recovery inside the sketch                   *)
(***************************************************************************)
\* C22: SparseRecovery::init stores the sparsity target clamped to the
\* domain size: the s that query compares the number of keys with is
\* min(s, n), also for the s = ceil(15 n log2 n) > n(n-1)/2 of the sketch
C22_SparsityClamped ==
    spc # "idle" =>
        LET passed == CeilDiv(compute_s(sparams.n), 1000)
            domain == binomial2(sparams.n)
        IN  sketch.sparse_recovery.s = (IF passed < domain THEN passed ELSE domain)

\* the s that init stores is the s it was passed
SparsityAsPassed ==
    spc # "idle" => sketch.sparse_recovery.s = CeilDiv(compute_s(sparams.n), 1000)

(***************************************************************************)
(* Properties of the fingerprints                                          *)
(***************************************************************************)
RECURSIVE SumOver(_, _)
\* the sum of term[j] over the coordinates j of a set
SumOver(coordinates, term) ==
    IF coordinates = {} THEN 0
    ELSE LET j == CHOOSE x \in coordinates : TRUE
         IN  term[j] + SumOver(coordinates \ {j}, term)

RECURSIVE PowerMod(_, _, _)
\* base^expo modulo order
PowerMod(base, expo, order) ==
    IF expo = 0 THEN 1 % order
    ELSE IF expo % 2 = 0 THEN PowerMod((base * base) % order, expo \div 2, order)
    ELSE (base * PowerMod((base * base) % order, expo \div 2, order)) % order

\* an integer as a high and a low part of 16 bits, to compare sums that leave
\* 32 bits
Half == 2^16
SplitOf(x) == <<x \div Half, x % Half>>

\* sum c_t
ExpectedL == SumOver(DOMAIN wfreq, wfreq)
\* sum c_t * j_t, split
ExpectedZ ==
    LET high == SumOver(DOMAIN wfreq, [j \in DOMAIN wfreq |-> wfreq[j] * (j \div Half)])
        low == SumOver(DOMAIN wfreq, [j \in DOMAIN wfreq |-> wfreq[j] * (j % Half)])
    IN  <<high + (low \div Half), low % Half>>
\* sum c_t * r^(j_t) mod p
ExpectedP ==
    SumOver(DOMAIN wfreq, [j \in DOMAIN wfreq |-> wfreq[j] * PowerMod(wone.r, j, wone.field)]) % wone.field

\* r, n and the field order stay as they are
InitValuesKept ==
    [][wone'.r = wone.r /\ wone'.n = wone.n /\ wone'.field = wone.field]_vars

\* C23: after any sequence of feeds of tokens (j, c) the fingerprints are
\* l = sum c, z = sum c * j and p = sum c * r^j modulo the order, and feed
\* never changes r, n and the order
C23_FingerprintInvariant ==
    /\ [](wpc = "stream" =>
            /\ wone.l = ExpectedL
            /\ SplitOf(wone.z) = ExpectedZ
            /\ wone.p = ExpectedP)
    /\ InitValuesKept

\* l and the fingerprint in the field are the sums, whatever is fed
LengthAndFieldFingerprint ==
    wpc = "stream" => wone.l = ExpectedL /\ wone.p = ExpectedP

\* z is the sum whenever the sum is an i32 and no feed has panicked
ZWhenInRange ==
    (wpc = "stream" /\ ExpectedZ[1] >= -(Half \div 2) /\ ExpectedZ[1] < Half \div 2)
        => SplitOf(wone.z) = ExpectedZ

\* the sum of two insertions of the wide coordinate is 2^31
ZOutOfRange == wpc = "stream" /\ ExpectedZ = <<Half \div 2, 0>> /\ wone.z = I32Min

\* the cells of the recovery of the sketch, and what their queries give
SketchCells ==
    UNION {{sketch.sparse_recovery.structures[row][b] : b \in DOMAIN sketch.sparse_recovery.structures[row]} :
              row \in DOMAIN sketch.sparse_recovery.structures}
SomeVeryLikely == \E cell \in SketchCells : \E o \in OneSparseRecovery_query(cell) : o.tag = "VeryLikely"

\* the net frequency of every monochromatic edge is zero
NetZero ==
    \A e \in SketchEdges : sketch.colors[e.v1] = sketch.colors[e.v2] => smult[to_d1(e)] = 0

\* no token reached the recovery
NothingForwarded ==
    \A row \in DOMAIN sketch.sparse_recovery.structures : sketch.sparse_recovery.structures[row] = EmptyMap

\* C24: SparseRecovery::query returns None whenever no cell yields
\* VeryLikely, as for the empty stream and for every stream whose net
\* frequency vector is zero; a sketch that was fed no monochromatic edge
\* returns None from query
C24_NoneWithoutVeryLikely ==
    spc = "queried" =>
        /\ ~SomeVeryLikely => srec = RecoveryNone /\ sout = ColorsNone
        /\ NetZero => ~SomeVeryLikely
        /\ NothingForwarded => sout = ColorsNone

\* an insertion and a deletion of a monochromatic edge, queried
C24_Witness ==
    /\ spc = "queried"
    /\ sfed = 2
    /\ ~NothingForwarded
    /\ NetZero
    /\ srec = RecoveryNone
    /\ sout = ColorsNone

\* only edges between two palette colours were fed
NonMonochromaticOnly ==
    spc = "queried" /\ sfed = SketchMaxFeed /\ NothingForwarded /\ sout = ColorsNone

(***************************************************************************)
(* Properties of the s-sparse recovery                                     *)
(***************************************************************************)
\* what the cells of the structure yield
RecCells ==
    UNION {{rrec.structures[row][b] : b \in DOMAIN rrec.structures[row]} : row \in DOMAIN rrec.structures}
RecLikely ==
    {o \in UNION {OneSparseRecovery_query(cell) : cell \in RecCells} : o.tag = "VeryLikely"}
Saturated == Cardinality({o.index : o \in RecLikely}) > rrec.s
TwoWeights == \E o1 \in RecLikely, o2 \in RecLikely : o1.index = o2.index /\ o1.lambda # o2.lambda

\* C25: a map that SparseRecovery::query returns has at least one and at
\* most s keys and holds the one weight that the cells give for each key;
\* more than s distinct VeryLikely coordinates, or one coordinate with two
\* weights in two cells, make query return None
C25_ReturnedMapWithinSparsity ==
    rpc = "queried" =>
        /\ rout.tag = "Some" =>
              /\ Cardinality(DOMAIN rout.map) >= 1
              /\ Cardinality(DOMAIN rout.map) <= rrec.s
              /\ DOMAIN rout.map = {o.index : o \in RecLikely}
              /\ \A o \in RecLikely : rout.map[o.index] = o.lambda
        /\ Saturated => rout = RecoveryNone
        /\ TwoWeights => rout = RecoveryNone

\* a map with as many keys as the sparsity allows
C25_Witness ==
    /\ rpc = "queried"
    /\ rrec.s = 2
    /\ rout.tag = "Some"
    /\ Cardinality(DOMAIN rout.map) = 2

SaturatedReached == rpc = "queried" /\ Saturated /\ ~TwoWeights /\ rout = RecoveryNone
TwoWeightsReached == rpc = "queried" /\ TwoWeights /\ ~Saturated /\ rout = RecoveryNone

(***************************************************************************)
(* Properties of feed on the sketch                                        *)
(***************************************************************************)
\* the index whose net multiplicity a feed step has changed
FedIndex == CHOOSE j \in DOMAIN smult : smult'[j] # smult[j]

\* C26: feed(edge, ins) gives the recovery the token (to_d1(edge), ins) if
\* and only if the endpoints have equal color tuples; for another edge the
\* sketch stays as it is, and colors and palette_size never change
C26_FeedForwardsMonochromatic ==
    [][sfed' = sfed + 1 =>
          LET edge == from_d1(FedIndex)
              ins == smult'[FedIndex] > smult[FedIndex]
          IN  /\ sketch'.colors = sketch.colors
              /\ sketch'.palette_size = sketch.palette_size
              /\ IF sketch.colors[edge.v1] = sketch.colors[edge.v2]
                 THEN /\ \E bases \in [DOMAIN sketch.sparse_recovery.structures -> SketchBases] :
                            sketch'.sparse_recovery =
                                SparseRecovery_feed(sketch.sparse_recovery, FedIndex, ins, bases)
                      /\ sketch'.sparse_recovery # sketch.sparse_recovery
                 ELSE sketch' = sketch]_vars

\* both kinds of edge were fed: the cells of the first row hold the tokens of
\* the monochromatic one only
C26_Witness ==
    /\ spc = "stream"
    /\ sfed = 2
    /\ \E e1 \in SketchEdges, e2 \in SketchEdges :
          /\ sketch.colors[e1.v1] = sketch.colors[e1.v2]
          /\ sketch.colors[e2.v1] # sketch.colors[e2.v2]
          /\ smult[to_d1(e1)] = 1
          /\ smult[to_d1(e2)] = 1
          /\ LET row == sketch.sparse_recovery.structures[1]
             IN  /\ Cardinality(DOMAIN row) = 1
                 /\ \A b \in DOMAIN row : row[b].l = 1 /\ row[b].z = to_d1(e1)

(***************************************************************************)
(* Properties of the tuples that query returns                             *)
(***************************************************************************)
\* the monochromatic graph of palette colour c that query builds from the
\* recovered indices
RecoveredGraph(c) ==
    add_edges(G(EmptyMap, EmptyMap),
              {e \in {from_d1(i) : i \in DOMAIN srec.map} :
                  sketch.colors[e.v1] = <<0, c>> /\ sketch.colors[e.v2] = <<0, c>>})

\* C27: in a coloring that query returns, a vertex that started with (0, c)
\* has (0, c) still or (c + 1, j) with j >= 1, j being the color that the
\* static colourer gave it in the monochromatic graph of c; the batch is
\* never lowered, and vertices of two palette classes never share a tuple
C27_RecoloredTuples ==
    (spc = "queried" /\ sout.tag = "Some") =>
        /\ \A v \in DOMAIN sketch.colors :
              LET c == sketch.colors[v][2]
              IN  /\ sketch.colors[v][1] = 0
                  /\ \/ sout.colors[v] = <<0, c>>
                     \/ sout.colors[v][1] = c + 1 /\ sout.colors[v][2] >= 1
                  /\ sout.colors[v][1] >= sketch.colors[v][1]
        /\ \A c \in 0..(sketch.palette_size - 1) :
              \E coloring \in color_degeneracy("GraphWithRecaller", RecoveredGraph(c).adj, RecoveredGraph(c).heap) :
                 \A v \in DOMAIN sketch.colors :
                    sketch.colors[v] = <<0, c>> =>
                       sout.colors[v] = (IF v \in DOMAIN coloring.map /\ coloring.map[v] # 0
                                         THEN <<c + 1, coloring.map[v]>> ELSE <<0, c>>)
        /\ \A v \in DOMAIN sketch.colors, w \in DOMAIN sketch.colors :
              sketch.colors[v] # sketch.colors[w] => sout.colors[v] # sout.colors[w]

\* two palette classes, a vertex of the second one recolored to batch 2
C27_Witness ==
    /\ spc = "queried" /\ sout.tag = "Some"
    /\ sketch.palette_size = 2
    /\ \E v \in DOMAIN sketch.colors, w \in DOMAIN sketch.colors, x \in DOMAIN sketch.colors :
          /\ sketch.colors[v] = <<0, 1>> /\ sout.colors[v] = <<2, 1>>
          /\ sketch.colors[w] = <<0, 1>> /\ sout.colors[w] = <<0, 1>>
          /\ sketch.colors[x] = <<0, 0>> /\ sout.colors[x] = <<0, 0>>

(***************************************************************************)
(* Properties of the L0 sampler                                            *)
(***************************************************************************)
\* the token of a processing step
LastToken == lfed'[Len(lfed')]

\* level l is given the token exactly when zero(l, j) holds
FedExactlyWhen(zero(_, _)) ==
    Len(lfed') = Len(lfed) + 1 =>
        \A i \in DOMAIN ldata :
           ldata'[i] = (IF zero(i, LastToken[1])
                        THEN [ldata[i] EXCEPT !.recovery = OneSparseRecovery_feed(@, LastToken[1], LastToken[2])]
                        ELSE ldata[i])

\* the hash of j at level i - 1, cut to the range 2^(i - 1), is zero
ZeroInRangeOfLevel(i, j) ==
    BitAnd(((ldata[i].hasher.a * j) + ldata[i].hasher.b) % ldata[i].hasher.n, 2^(i - 1) - 1) = 0

\* the levels before i yield no VeryLikely
NoneBefore(i) ==
    \A k \in 1..(i - 1) : \A q \in OneSparseRecovery_query(ldata[k].recovery) : q.tag # "VeryLikely"

\* the scan returns (i, lambda) of the first level that yields VeryLikely, or
\* None when no level does
ScanReturnsFirst ==
    lpc = "returned" =>
        IF NoneBefore(Len(ldata) + 1) THEN lout = SampledNone
        ELSE \E i \in DOMAIN ldata :
                /\ NoneBefore(i)
                /\ \E q \in OneSparseRecovery_query(ldata[i].recovery) :
                      q.tag = "VeryLikely" /\ lout = Sampled(q.index, q.lambda)

\* C28: a token (j, ins) is fed to the recoverer of level l exactly when
\* hasher_l(j) = 0, hasher_l having the range 2^l (level 0 gets every
\* token), and query returns (i, lambda) of the first level in increasing l
\* that yields VeryLikely(lambda, i), or None if no level does
C28_LevelsSubsample ==
    /\ [][FedExactlyWhen(ZeroInRangeOfLevel)]_vars
    /\ []ScanReturnsFirst

\* a token is fed to a level exactly when the hasher of the level gives zero
FedWhenHasherZero ==
    [][FedExactlyWhen(LAMBDA i, j : is_zero(ldata[i].hasher, j))]_vars

\* level 0 receives every token
LevelZeroGetsAll ==
    lpc = "process" => ldata[1].recovery.l = SumOver(DOMAIN lfed, [t \in DOMAIN lfed |-> IF lfed[t][2] THEN 1 ELSE -1])

\* the masks of the levels 0, 1, 2, 3 are 0, 0, 1, 1
MasksOfLevels ==
    lpc # "idle" => \A i \in DOMAIN ldata : ldata[i].hasher.mask = (IF i <= 2 THEN 0 ELSE 1)

(***************************************************************************)
(* Properties of the extraction loop of color_degeneracy                   *)
(***************************************************************************)
\* every vertex of adj is in the ordering, exactly once
EachVertexOnce(adj, ordering) ==
    /\ Len(ordering) = Cardinality(DOMAIN adj)
    /\ {ordering[i] : i \in DOMAIN ordering} = DOMAIN adj

\* every vertex of the ordering has least degree among the vertices that the
\* ordering has not extracted before it, in the graph they induce
SmallestLast(adj, ordering) ==
    \A i \in DOMAIN ordering :
        LET remaining == DOMAIN adj \ {ordering[j] : j \in 1..(i - 1)}
        IN  /\ ordering[i] \in remaining
            /\ \A w \in remaining :
                  Cardinality(adj[ordering[i]] \cap remaining) <= Cardinality(adj[w] \cap remaining)

\* the loop ends without a panic, whatever way the ties are broken, with a
\* smallest-last ordering of the vertices of the container
ExtractsSmallestLast ==
    \A o \in extraction(gkind, gadj, gheap) :
        /\ ~o.panic
        /\ EachVertexOnce(gadj, o.ordering)
        /\ SmallestLast(gadj, o.ordering)

\* a call of color_degeneracy leaves the container as it was
CallKeepsGraph == gcol' # NoColoring => UNCHANGED <<gkind, gadj, gheap>>

\* C29: on every finite undirected graph the extraction loop of
\* color_degeneracy terminates with an ordering that holds every vertex of the
\* graph exactly once, each vertex being of minimum degree in what remained of
\* the clone when it was extracted, and the call does not modify the graph
C29_SmallestLastOrdering ==
    /\ []((gcol # NoColoring /\ Undirected(gadj)) => ExtractsSmallestLast)
    /\ [][CallKeepsGraph]_vars

\* the same on a container whose heap agrees with its adjacency map, which
\* every Graph does
SmallestLastWhenHeapAgrees ==
    (gcol # NoColoring /\ Undirected(gadj) /\ HeapAgrees) => ExtractsSmallestLast

GraphNotModified == [][CallKeepsGraph]_vars

\* a GraphWithRecaller with an agreeing heap, colored, whose extraction has
\* ties to break
TiedExtractionReached ==
    /\ gkind = "GraphWithRecaller" /\ gcol.tag = "Coloring" /\ HeapAgrees
    /\ Cardinality(DOMAIN gadj) = GN
    /\ Cardinality(extraction(gkind, gadj, gheap)) > 1

(***************************************************************************)
(* Linearity of the fingerprints in the stream                             *)
(***************************************************************************)
Fed(s) == [panic |-> FALSE, s |-> s]
FedPanic == [panic |-> TRUE, s |-> OneSparseRecovery_init_with_order(1, 2, 0)]

RECURSIVE fed_stream(_, _, _)
\* the structure after recover.feed(token) for every token of the stream in
\* turn, in a build that checks overflow or in one that does not
fed_stream(s, stream, checked) ==
    IF stream = <<>> THEN Fed(s)
    ELSE LET j == Head(stream)[1]
             c == Head(stream)[2]
         IN  IF checked /\ OneSparseRecovery_feed_overflows(s, j, c) THEN FedPanic
             ELSE fed_stream(OneSparseRecovery_feed(s, j, c), Tail(stream), checked)

\* the structure as init_with_order returned it, with the r that it drew
AsInitialized == [wone EXCEPT !.l = 0, !.z = 0, !.p = 0]

\* the streams that are permutations of the stream fed
PermutationsOfFed ==
    LET idx == 1..Len(wfed)
    IN  {[i \in idx |-> wfed[pi[i]]] : pi \in {f \in [idx -> idx] : \A a \in idx, b \in idx : f[a] = f[b] => a = b}}

\* the stream fed without tokens a and b
Without(a, b) ==
    LET kept == {i \in 1..Len(wfed) : i # a /\ i # b}
        nth(k) == CHOOSE i \in kept : Cardinality({x \in kept : x < i}) = k - 1
    IN  [k \in 1..Cardinality(kept) |-> wfed[nth(k)]]

\* every permutation of the stream fed leaves the fingerprints of the stream
PermutationsAgree(checked) ==
    \A stream \in PermutationsOfFed :
        fed_stream(AsInitialized, stream, checked) = fed_stream(AsInitialized, wfed, checked)

\* an insertion of an item and a later deletion of it leave the fingerprints
\* of the stream without the two tokens
InsertThenDeleteRestores(checked) ==
    \A a \in 1..Len(wfed), b \in 1..Len(wfed) :
        (a < b /\ wfed[a][1] = wfed[b][1] /\ wfed[a][2] /\ ~wfed[b][2]) =>
            fed_stream(AsInitialized, Without(a, b), checked) = fed_stream(AsInitialized, wfed, checked)

\* C30: the sketch is linear in the stream: with r and p fixed, two streams
\* that are permutations of each other leave a OneSparseRecovery with the same
\* fingerprints l, z and p, and an insertion of an item followed later by its
\* deletion leaves the fingerprints as they were without the two tokens
C30_LinearInStream ==
    wpc = "stream" =>
        \A checked \in BOOLEAN : PermutationsAgree(checked) /\ InsertThenDeleteRestores(checked)

\* the same where overflow is not checked, and over a domain whose
\* coordinates cannot overflow z within the stream
LinearWhereUnchecked ==
    wpc = "stream" => PermutationsAgree(FALSE) /\ InsertThenDeleteRestores(FALSE)

LinearOnSmallDomain ==
    (wpc = "stream" /\ wone.n <= 3) =>
        \A checked \in BOOLEAN : PermutationsAgree(checked) /\ InsertThenDeleteRestores(checked)

\* the structure of the state is the one the stream fed leaves where overflow
\* is not checked, and where it is checked unless an overflow has gone by
StateIsFedStream ==
    wpc = "stream" =>
        /\ fed_stream(AsInitialized, wfed, FALSE) = Fed(wone)
        /\ fed_stream(AsInitialized, wfed, TRUE) \in {Fed(wone), FedPanic}

\* a stream of insertions and deletions of the wide coordinate has been fed
\* whole
WideStreamFed ==
    /\ wpc = "stream" /\ Len(wfed) = 3
    /\ \A i \in 1..3 : wfed[i][1] = WideCoordinate
    /\ wfed[1][2] /\ ~wfed[2][2] /\ wfed[3][2]

\* every cell of the recovery holds the fingerprints of the net frequencies
\* of the items of its bucket, and every item of net frequency other than
\* zero has its cell in every row
CellsOfFrequencies(rec, freq) ==
    \A row \in DOMAIN rec.structures :
        /\ \A j \in DOMAIN freq :
              freq[j] # 0 => PowerFiniteFieldHasher_compute(rec.functions[row], j) \in DOMAIN rec.structures[row]
        /\ \A b \in DOMAIN rec.structures[row] :
              LET cell == rec.structures[row][b]
                  of_bucket == [j \in DOMAIN freq |->
                      IF PowerFiniteFieldHasher_compute(rec.functions[row], j) = b THEN freq[j] ELSE 0]
              IN  /\ cell.l = SumOver(DOMAIN freq, of_bucket)
                  /\ cell.z = SumOver(DOMAIN freq, [j \in DOMAIN freq |-> of_bucket[j] * j])
                  /\ cell.p = SumOver(DOMAIN freq,
                         [j \in DOMAIN freq |-> of_bucket[j] * PowerMod(cell.r, j, cell.field)]) % cell.field

\* the recovery without the cells whose fingerprints are all zero
WithoutZeroCells(rec) ==
    [rec EXCEPT !.structures =
        [row \in DOMAIN rec.structures |->
            LET kept == {b \in DOMAIN rec.structures[row] :
                            LET cell == rec.structures[row][b] IN cell.l # 0 \/ cell.z # 0 \/ cell.p # 0}
            IN  [b \in kept |-> rec.structures[row][b]]]]

\* the state of a SparseRecovery, and what its query gives, depend on the
\* stream through its net frequencies only
RecoveryLinearInStream ==
    rpc = "stream" =>
        /\ CellsOfFrequencies(rrec, rfreq)
        /\ SparseRecovery_query(rrec) = SparseRecovery_query(WithoutZeroCells(rrec))

\* the net frequencies of the edges that feed forwards
Forwarded ==
    [i \in DOMAIN smult |->
        IF \E e \in SketchEdges : to_d1(e) = i /\ sketch.colors[e.v1] = sketch.colors[e.v2]
        THEN smult[i] ELSE 0]

\* the same for the sketch and its query
SketchLinearInStream ==
    spc = "stream" =>
        /\ CellsOfFrequencies(sketch.sparse_recovery, Forwarded)
        /\ StreamColoring_query(sketch) =
               StreamColoring_query([sketch EXCEPT !.sparse_recovery = WithoutZeroCells(@)])

\* a cell that an insertion made and a deletion emptied
ZeroCellReached ==
    /\ rpc = "stream" /\ rfed = RecMaxFeed
    /\ WithoutZeroCells(rrec) # rrec
    /\ \E j \in DOMAIN rfreq : rfreq[j] # 0

====
